---- MODULE Spec2Model ----
(***************************************************************************)
(* A model of the ZCPM CP/M emulator core: the emulated disk               *)
(* (src/core/disk.cpp), the memory fabric and observer                     *)
(* (src/core/hardware.cpp), the BIOS interception (src/core/bios.cpp),     *)
(* the orchestrator (src/core/system.cpp) and the fetch/execute loop of    *)
(* the Z80 interpreter (src/core/processor.cpp).                           *)
(*                                                                         *)
(* Bytes are integers 0..255, words 0..65535.  C arrays are 0-based; the   *)
(* sequences that model them are 1-based, so buffer[i] in the source is    *)
(* buf[i + 1] here.  Strings are sequences of character codes.             *)
(***************************************************************************)
EXTENDS Integers, Sequences, FiniteSets, TLC

VARIABLES
    \* ---- Disk::Private (src/core/disk.cpp) ----
    m_entries,       \* std::vector<Entry>
    m_sector_cache,  \* std::map<Location, SectorInfo>
    m_next_block,    \* std::uint16_t, initially 0x0010
    hostfs,          \* the host directory: raw file name -> sequence of sectors
    diskPhase,       \* "none" | "live" | "flushed"
    readLoc,         \* location of the most recent Disk::read, or <<>>
    readBuf,         \* the buffer that read returned
    written,         \* history: location -> the buffer most recently written there
    dirHist,         \* history: raw name -> what the guest last did to its slot
    diskOps,         \* number of disk operations performed (bounded)
    \* ---- Hardware / Bios / Processor / System ----
    mem,             \* Hardware::m_memory, sparse: only non-zero bytes are stored
    cpu,             \* Processor registers (m_pc, sp, a, ...)
    pc,              \* the local 'pc' of Processor::emulate(opcode, ...)
    m_effective_pc,  \* Processor::m_effective_pc
    m_finished,      \* Hardware::m_finished
    m_check_memory_accesses,
    m_enable_memory_checks,
    bios,            \* Bios members (present, bases, track/sector/dma)
    m_fbase,         \* Hardware::m_fbase
    phase,           \* position of the driver (builder/runner/debugger)
    fault,           \* "none" or the message of the exception that escaped
    term,            \* characters handed to Terminal::print
    m_output_handler, \* the user's OUT handler: "none", or "finish" (it calls set_finished(true))
    runs,            \* number of run()/step() calls made so far (bounded)
    steps,           \* instructions the current step() call has still to emulate
    passes,          \* passes of the emulation loop made by the current call (bounded)
    m_debug_actions, \* Processor::m_debug_actions, in the multimap's iteration order
    elapsed_cycles,  \* the 'elapsed_cycles' of Processor::emulate(opcode, ...)
    max_cycles,      \* its 'max_cycles'
    m_symbols,       \* SymbolTable::m_symbols, in the multimap's iteration order
    hist             \* history of the last emulation step (for the properties)

diskVars == <<m_entries, m_sector_cache, m_next_block, hostfs, diskPhase,
              readLoc, readBuf, written, dirHist, diskOps>>
sysVars  == <<mem, cpu, pc, m_effective_pc, m_finished, m_check_memory_accesses,
              m_enable_memory_checks, bios, m_fbase, phase, fault, term,
              m_output_handler, runs, steps, passes, m_debug_actions,
              elapsed_cycles, max_cycles, m_symbols, hist>>
vars     == <<diskVars, sysVars>>

-----------------------------------------------------------------------------
(* Bounds of the model *)

MaxDiskOps == 4
\* run()/step() calls made on a machine once it is ready
MaxRuns == 2
\* the largest instruction count handed to step()
MaxStepCount == 2
\* passes of the emulation loop followed within one call
MaxPasses == 12
\* the most debug actions registered at a time
MaxActions == 2

-----------------------------------------------------------------------------
(* Generic helpers *)

Min(a, b) == IF a < b THEN a ELSE b

U8(x)  == x % 256
U16(x) == x % 65536

Lo(w) == w % 256
Hi(w) == (w \div 256) % 256

RECURSIVE SeqFilterNZ(_)
SeqFilterNZ(s) ==
    IF s = <<>> THEN <<>>
    ELSE IF Head(s) = 0 THEN SeqFilterNZ(Tail(s))
         ELSE <<Head(s)>> \o SeqFilterNZ(Tail(s))

SeqContains(s, x) == \E i \in 1..Len(s) : s[i] = x

-----------------------------------------------------------------------------
(* src/core/disk.hpp and the anonymous namespace of src/core/disk.cpp *)

SectorSize      == 128
EntrySize       == 32
BlockSize       == 2048
SectorsPerBlock == BlockSize \div SectorSize
BSH             == 4
BLM             == 15
InitialNextBlock == 16

Inactive == 229   \* 0xE5

\* std::isspace in the "C" locale, used by boost::trim_right_copy
IsSpace(ch) == ch \in {32, 9, 10, 11, 12, 13}

ToUpper(ch) == IF ch >= 97 /\ ch <= 122 THEN ch - 32 ELSE ch
ToLower(ch) == IF ch >= 65 /\ ch <= 90 THEN ch + 32 ELSE ch

to_upper_copy(s) == [i \in 1..Len(s) |-> ToUpper(s[i])]
to_lower_copy(s) == [i \in 1..Len(s) |-> ToLower(s[i])]

RECURSIVE trim_right_copy(_)
trim_right_copy(s) ==
    IF s = <<>> THEN <<>>
    ELSE IF IsSpace(s[Len(s)]) THEN trim_right_copy(SubSeq(s, 1, Len(s) - 1))
         ELSE s

\* std::string::substr(pos, n) for pos <= size
substr(s, pos, n) == SubSeq(s, pos + 1, Min(Len(s), pos + n))

\* Position (1-based) of the last '.' of a file name, 0 if there is none
RECURSIVE LastDot(_)
LastDot(s) ==
    IF s = <<>> THEN 0
    ELSE IF s[Len(s)] = 46 THEN Len(s)
         ELSE LastDot(SubSeq(s, 1, Len(s) - 1))

\* std::filesystem::path::stem / extension of a plain file name
PathExtension(fn) ==
    LET d == LastDot(fn) IN
    IF d <= 1 \/ fn = <<46, 46>> THEN <<>> ELSE SubSeq(fn, d, Len(fn))

PathStem(fn) ==
    SubSeq(fn, 1, Len(fn) - Len(PathExtension(fn)))

\* convert(): 'foo','.txt' -> 'FOO     TXT'
convert(filename, extension) ==
    LET f       == to_upper_copy(substr(filename, 0, 8))
        has_dot == extension # <<>> /\ extension[1] = 46
        e       == to_upper_copy(substr(extension, IF has_dot THEN 1 ELSE 0, 3))
    IN [i \in 1..11 |->
          IF i <= Len(f) THEN f[i]
          ELSE IF i > 8 /\ i - 8 <= Len(e) THEN e[i - 8]
          ELSE 32]

\* find_location_within_block(): block and sector offset -> <<track, sector>>
find_location_within_block(block, sector_offset) ==
    LET s            == block * SectorsPerBlock + sector_offset
        track_index  == s \div SectorSize
        sector_index == s - track_index * SectorSize
    IN <<U16(track_index), U16(sector_index)>>

\* track_sector_to_block_and_offset(): <<block, offset>>
track_sector_to_block_and_offset(track, sector) ==
    LET n == track * SectorSize + sector
    IN <<U16(n \div 16), U8(n % 16)>>

-----------------------------------------------------------------------------
(* struct Entry *)

\* Entry(const directory_entry&, extent, sectors, first_block): a host file
EntryFromHost(fname, fsize, extent, sectors, first_block) ==
    [ m_raw_name    |-> fname,
      m_name        |-> convert(PathStem(fname), PathExtension(fname)),
      m_exists      |-> TRUE,
      m_size        |-> fsize,
      m_sectors     |-> Min(U16(sectors), 128),     \* std::uint16_t sectors
      m_extent      |-> U8(extent),                 \* std::uint8_t extent
      m_first_block |-> first_block,
      m_blocks      |-> <<>>,
      m_modified    |-> FALSE ]

\* Entry(const std::uint8_t* buffer): one 32-byte slot of a directory sector
EntryFromBuffer(b) ==
    LET name == SubSeq(b, 2, 12) IN
    [ m_raw_name    |-> to_lower_copy(trim_right_copy(substr(name, 0, 8)) \o <<46>>
                                      \o trim_right_copy(substr(name, 8, 3))),
      m_name        |-> name,
      m_exists      |-> (b[1] # Inactive),
      m_size        |-> 0,
      m_sectors     |-> b[16],
      m_extent      |-> b[13],
      m_first_block |-> 0,
      m_blocks      |-> SeqFilterNZ([i \in 1..8 |-> b[16 + 2 * i - 1] + 256 * b[16 + 2 * i]]),
      m_modified    |-> TRUE ]

-----------------------------------------------------------------------------
(* Disk::Private::build_directory *)

ZcpmLog == <<122, 99, 112, 109, 46, 108, 111, 103>>   \* "zcpm.log"

\* One iteration of the inner loop: extent i of one host file.
\* st = [entries, next, remaining]: m_entries, m_next_block, remaining_sectors
BuildExtent(fname, bytes, i, first_block, st) ==
    LET e0  == EntryFromHost(fname, bytes, i, st.remaining, first_block)
        nb  == (e0.m_sectors + SectorsPerBlock - 1) \div SectorsPerBlock
        e   == [e0 EXCEPT !.m_blocks = [j \in 1..nb |-> U16(st.next + j - 1)]]
    IN [entries   |-> Append(st.entries, e),
        next      |-> U16(st.next + nb),
        remaining |-> st.remaining - e0.m_sectors]

\* The iterations lo..hi-1 of the inner loop, in order: the lower half of
\* the range first, the upper half from the state the lower half leaves
RECURSIVE BuildExtents(_, _, _, _, _, _)
BuildExtents(fname, bytes, lo, hi, first_block, st) ==
    IF lo >= hi THEN st
    ELSE IF hi = lo + 1 THEN BuildExtent(fname, bytes, lo, first_block, st)
    ELSE LET mid  == (lo + hi) \div 2
             half == BuildExtents(fname, bytes, lo, mid, first_block, st)
         IN IF half.next >= 0
            THEN BuildExtents(fname, bytes, mid, hi, first_block, half)
            ELSE half

\* files: the regular files of the host directory in iteration order,
\* each [name, size]
RECURSIVE build_directory(_, _)
build_directory(files, st) ==
    IF files = <<>> THEN st
    ELSE
      LET item        == Head(files)
          bytes       == item.size
          extent_size == 128 * 128
          num_entries == (bytes + extent_size - 1) \div extent_size
          remaining   == (bytes + SectorSize - 1) \div SectorSize
          r           == BuildExtents(item.name, bytes, 0, num_entries, st.next,
                                      [entries |-> st.entries, next |-> st.next,
                                       remaining |-> remaining])
      IN build_directory(Tail(files),
           IF item.name # ZcpmLog
           THEN [entries |-> r.entries, next |-> r.next]
           ELSE st)

-----------------------------------------------------------------------------
(* Disk::Private::format_directory_entry, create_directory_entries *)

format_directory_entry(entries, n) ==
    IF n >= Len(entries) THEN [i \in 1..EntrySize |-> Inactive]
    ELSE
      LET f == entries[n + 1] IN
      [i \in 1..EntrySize |->
         IF i = 1 THEN (IF f.m_exists THEN 0 ELSE Inactive)
         ELSE IF i >= 2 /\ i - 1 <= Len(f.m_name) THEN f.m_name[i - 1]
         ELSE IF i = 13 THEN f.m_extent % 32
         ELSE IF i = 14 THEN 0
         ELSE IF i = 15 THEN (f.m_extent \div 32) % 256
         ELSE IF i = 16 THEN U8(f.m_sectors)
         ELSE IF i >= 17 /\ (i - 17) \div 2 < Len(f.m_blocks)
              THEN (IF (i - 17) % 2 = 0 THEN Lo(f.m_blocks[(i - 17) \div 2 + 1])
                                        ELSE Hi(f.m_blocks[(i - 17) \div 2 + 1]))
         ELSE 0]

\* (a variant that takes the sector number alone as the first position)
create_directory_entries_by_sector(entries, track, sector) ==
    LET index == track * SectorSize + sector IN
    format_directory_entry(entries, U16(index + 0)) \o
    format_directory_entry(entries, U16(index + 1)) \o
    format_directory_entry(entries, U16(index + 2)) \o
    format_directory_entry(entries, U16(index + 3))

create_directory_entries(entries, track, sector) ==
    LET index == (track * SectorSize + sector) * 4 IN
    format_directory_entry(entries, U16(index + 0)) \o
    format_directory_entry(entries, U16(index + 1)) \o
    format_directory_entry(entries, U16(index + 2)) \o
    format_directory_entry(entries, U16(index + 3))

-----------------------------------------------------------------------------
(* Host files: hostfs maps a raw name to the file's sectors, a sequence of  *)
(* byte sequences of which only the last may be shorter than 128 bytes.    *)

ZeroSector == [i \in 1..SectorSize |-> 0]

PadSector(sec) == [i \in 1..SectorSize |-> IF i <= Len(sec) THEN sec[i] ELSE 0]

\* fread of one sector at sector index 'chunk' into 'buffer'; a seek to a
\* negative offset fails and leaves the position at the start of the file
HostReadSector(data, chunk, buffer) ==
    LET k == IF chunk < 0 THEN 0 ELSE chunk IN
    IF k >= Len(data) THEN buffer
    ELSE [i \in 1..SectorSize |-> IF i <= Len(data[k + 1]) THEN data[k + 1][i] ELSE buffer[i]]

\* fseek + fwrite of one sector at sector index 'chunk' (holes read as zero)
HostWriteSector(data, chunk, sec) ==
    LET k == IF chunk < 0 THEN 0 ELSE chunk IN
    IF k < Len(data) THEN [data EXCEPT ![k + 1] = sec]
    ELSE [i \in 1..(k + 1) |->
            IF i <= Len(data) THEN PadSector(data[i])
            ELSE IF i = k + 1 THEN sec
            ELSE ZeroSector]

\* the same with an fwrite that gets n of the 128 bytes out
HostWritePart(data, chunk, sec, n) ==
    LET k == IF chunk < 0 THEN 0 ELSE chunk IN
    IF n >= SectorSize THEN HostWriteSector(data, chunk, sec)
    ELSE IF n = 0 THEN data
    ELSE IF k < Len(data)
    THEN [data EXCEPT ![k + 1] =
            [i \in 1..(IF n > Len(data[k + 1]) THEN n ELSE Len(data[k + 1])) |->
                IF i <= n THEN sec[i] ELSE data[k + 1][i]]]
    ELSE HostWriteSector(data, chunk, SubSeq(sec, 1, n))

\* fopen(name, "w") fails on a name that is not a file name
HostCanCreate(raw) == raw # <<46>>

-----------------------------------------------------------------------------
(* Disk::Private::read_disk_data *)

\* Index of the first entry whose block list contains 'block', 0 if none
RECURSIVE FindOwner(_, _, _)
FindOwner(entries, block, k) ==
    IF k > Len(entries) THEN 0
    ELSE IF SeqContains(entries[k].m_blocks, block) THEN k
    ELSE FindOwner(entries, block, k + 1)

\* Result: [buf, threw]
read_disk_data(entries, fs, buffer, track, sector) ==
    LET bo    == track_sector_to_block_and_offset(track, sector)
        block == bo[1]
        k     == FindOwner(entries, block, 1)
    IN IF k = 0 THEN [buf |-> buffer, threw |-> FALSE]
       ELSE LET f            == entries[k]
                block_offset == block - f.m_first_block
                chunk        == block_offset * 16 + bo[2]
            IN IF f.m_raw_name \in DOMAIN fs
               THEN [buf |-> HostReadSector(fs[f.m_raw_name], chunk, buffer), threw |-> FALSE]
               ELSE [buf |-> buffer, threw |-> TRUE]

-----------------------------------------------------------------------------
(* Disk::Private::read.  Result: [buf, cache, threw] *)

DiskRead(entries, cache, fs, buffer, track, sector) ==
    LET location == <<track, sector>> IN
    IF location \in DOMAIN cache
    THEN [buf |-> cache[location].m_data, cache |-> cache, threw |-> FALSE]
    ELSE IF track = 0 \/ track = 1
    THEN LET b == create_directory_entries(entries, track, sector)
         IN [buf |-> b,
             cache |-> (location :> [m_data |-> b, m_dirty |-> FALSE]) @@ cache,
             threw |-> FALSE]
    ELSE LET r == read_disk_data(entries, fs, buffer, track, sector)
         IN IF r.threw THEN [buf |-> r.buf, cache |-> cache, threw |-> TRUE]
            ELSE [buf |-> r.buf,
                  cache |-> (location :> [m_data |-> r.buf, m_dirty |-> FALSE]) @@ cache,
                  threw |-> FALSE]

-----------------------------------------------------------------------------
(* Disk::Private::write_disk_data *)

\* (a variant that leaves a sector that is already cached as it is)
write_disk_data_emplace(cache, buffer, track, sector) ==
    LET location == <<track, sector>> IN
    IF location \in DOMAIN cache
    THEN cache
    ELSE (location :> [m_data |-> buffer, m_dirty |-> TRUE]) @@ cache

write_disk_data(cache, buffer, track, sector) ==
    LET location == <<track, sector>> IN
    IF location \in DOMAIN cache
    THEN [cache EXCEPT ![location] = [m_data |-> buffer, m_dirty |-> TRUE]]
    ELSE (location :> [m_data |-> buffer, m_dirty |-> TRUE]) @@ cache

-----------------------------------------------------------------------------
(* Disk::Private::check_for_directory_changes.  st = [entries, next] *)

NoAction(e, p) ==
    e.m_name = p.m_name /\ e.m_extent = p.m_extent /\ e.m_blocks = p.m_blocks
ContentModification(e, p) ==
    e.m_name = p.m_name /\ e.m_extent = p.m_extent /\ e.m_blocks # p.m_blocks
Rename(e, p) ==
    /\ e.m_exists /\ e.m_name # p.m_name /\ e.m_extent = p.m_extent
    /\ e.m_blocks = p.m_blocks /\ p.m_blocks # <<>>
Deletion(e, p) ==
    /\ e.m_name = p.m_name /\ e.m_exists /\ ~p.m_exists
    /\ e.m_extent = p.m_extent /\ e.m_blocks = p.m_blocks

\* The walk over m_entries for a pending entry that exists: the first entry
\* for which one of the three branches is taken, 0 if the walk finds none
RECURSIVE FirstFound(_, _, _)
FirstFound(entries, p, k) ==
    IF k > Len(entries) THEN 0
    ELSE IF NoAction(entries[k], p) \/ ContentModification(entries[k], p)
            \/ Rename(entries[k], p) THEN k
    ELSE FirstFound(entries, p, k + 1)

RECURSIVE FirstDeletion(_, _, _)
FirstDeletion(entries, p, k) ==
    IF k > Len(entries) THEN 0
    ELSE IF Deletion(entries[k], p) THEN k
    ELSE FirstDeletion(entries, p, k + 1)

ApplyPending(st, p) ==
    IF p.m_exists
    THEN LET k == FirstFound(st.entries, p, 1) IN
         IF k = 0 THEN [st EXCEPT !.entries = Append(st.entries, p)]
         ELSE LET e == st.entries[k] IN
              IF NoAction(e, p) THEN st
              ELSE IF ContentModification(e, p)
              THEN [entries |-> [st.entries EXCEPT ![k] =
                                    [e EXCEPT !.m_sectors     = p.m_sectors,
                                              !.m_blocks      = p.m_blocks,
                                              !.m_size        = p.m_sectors * SectorSize,
                                              !.m_first_block = st.next,
                                              !.m_modified    = TRUE]],
                    next    |-> U16(st.next + 1)]
              ELSE [st EXCEPT !.entries[k] =
                                    [e EXCEPT !.m_name     = p.m_name,
                                              !.m_raw_name = p.m_raw_name,
                                              !.m_modified = TRUE]]
    ELSE LET k == FirstDeletion(st.entries, p, 1) IN
         IF k = 0 THEN st
         ELSE [st EXCEPT !.entries[k] =
                  [st.entries[k] EXCEPT !.m_exists = FALSE, !.m_modified = TRUE]]

RECURSIVE CheckSlots(_, _, _)
CheckSlots(st, buffer, i) ==
    IF i >= SectorSize \div EntrySize THEN st
    ELSE CheckSlots(ApplyPending(st, EntryFromBuffer(SubSeq(buffer, i * EntrySize + 1,
                                                                   (i + 1) * EntrySize))),
                    buffer, i + 1)

check_for_directory_changes(st, buffer) == CheckSlots(st, buffer, 0)

-----------------------------------------------------------------------------
(* Disk::Private::write.  Result: [entries, next, cache] *)

DiskWrite(entries, next, cache, buffer, track, sector) ==
    LET st == IF track = 0 \/ track = 1
              THEN check_for_directory_changes([entries |-> entries, next |-> next], buffer)
              ELSE [entries |-> entries, next |-> next]
    IN [entries |-> st.entries, next |-> st.next,
        cache   |-> write_disk_data(cache, buffer, track, sector)]

-----------------------------------------------------------------------------
(* Disk::Private::flush_file_changes_to_host_filesystem                    *)
(* st = [fs, cache, threw]                                                 *)

\* The sectors of one block of a modified live entry, appended to the file
\* that was opened for writing; sectors missing from the cache are skipped
RECURSIVE FlushBlockSectors(_, _, _, _, _)
FlushBlockSectors(st, raw, b, i, sectors_this_block) ==
    IF i >= sectors_this_block THEN st
    ELSE LET loc == find_location_within_block(b, i)
             one == IF loc \in DOMAIN st.cache
                    THEN [st EXCEPT !.fs[raw] = Append(st.fs[raw], st.cache[loc].m_data),
                                    !.cache[loc].m_dirty = FALSE]
                    ELSE st
         IN IF Len(one.fs[raw]) >= 0
            THEN FlushBlockSectors(one, raw, b, i + 1, sectors_this_block)
            ELSE one

RECURSIVE FlushBlocks(_, _, _)
FlushBlocks(st, e, bi) ==
    IF bi > Len(e.m_blocks) THEN st
    ELSE LET sectors_remaining  == e.m_sectors
             sectors_this_block == Min(SectorsPerBlock, U16(sectors_remaining))
             blk == FlushBlockSectors(st, e.m_raw_name, e.m_blocks[bi], 0,
                                      sectors_this_block)
         IN IF Len(blk.fs[e.m_raw_name]) >= 0
            THEN FlushBlocks(blk, e, bi + 1)
            ELSE blk

has_existing_version(entries, e) ==
    \E i \in 1..Len(entries) :
        entries[i].m_exists /\ entries[i].m_raw_name = e.m_raw_name

FsRemove(fs, raw) == [n \in DOMAIN fs \ {raw} |-> fs[n]]

FlushEntry(st, entries, e) ==
    IF ~e.m_modified THEN st
    ELSE IF e.m_exists
    THEN IF HostCanCreate(e.m_raw_name)
         THEN FlushBlocks([st EXCEPT !.fs = (e.m_raw_name :> <<>>) @@ st.fs], e, 1)
         ELSE [st EXCEPT !.threw = TRUE]
    ELSE IF has_existing_version(entries, e) THEN st
         ELSE [st EXCEPT !.fs = FsRemove(st.fs, e.m_raw_name)]

RECURSIVE FlushEntries(_, _, _)
FlushEntries(st, entries, k) ==
    IF k > Len(entries) \/ st.threw THEN st
    ELSE FlushEntries(FlushEntry(st, entries, entries[k]), entries, k + 1)

flush_file_changes_to_host_filesystem(fs, cache, entries) ==
    FlushEntries([fs |-> fs, cache |-> cache, threw |-> FALSE], entries, 1)

-----------------------------------------------------------------------------
(* Disk::Private::flush_changed_sectors_to_host_filesystem, flush_changed_file *)

LocLess(a, b) == a[1] < b[1] \/ (a[1] = b[1] /\ a[2] < b[2])

MinLoc(S) == CHOOSE a \in S : \A b \in S : a = b \/ LocLess(a, b)

\* the host writes every sector out in full
NoShortWrites == <<>>

\* the bytes fwrite gets out for a sector of the file 'raw'; short gives the
\* count for the files the host cannot write in full
Fwrite(short, raw) == IF raw \in DOMAIN short THEN short[raw] ELSE SectorSize

\* One write of a dirty sector into the file of an owning entry; a file that
\* cannot be opened for update throws, and the caller logs and carries on;
\* a short fwrite is logged
flush_changed_file(fs, value, block, offset, f, short) ==
    LET chunk == (block - f.m_first_block) * 16 + offset
        n     == Fwrite(short, f.m_raw_name)
    IN IF f.m_raw_name \in DOMAIN fs
       THEN [fs EXCEPT ![f.m_raw_name] =
                HostWritePart(fs[f.m_raw_name], chunk, value.m_data, n)]
       ELSE fs

\* every position i of every live entry f with f.m_blocks[i] = block
RECURSIVE FlushSectorBlocks(_, _, _, _, _, _, _)
FlushSectorBlocks(fs, value, block, offset, f, i, short) ==
    IF i > Len(f.m_blocks) THEN fs
    ELSE FlushSectorBlocks(
            IF f.m_blocks[i] = block
            THEN flush_changed_file(fs, value, block, offset, f, short)
            ELSE fs,
            value, block, offset, f, i + 1, short)

RECURSIVE FlushSectorEntries(_, _, _, _, _, _, _)
FlushSectorEntries(fs, value, block, offset, entries, k, short) ==
    IF k > Len(entries) THEN fs
    ELSE FlushSectorEntries(
            IF entries[k].m_exists
            THEN FlushSectorBlocks(fs, value, block, offset, entries[k], 1, short)
            ELSE fs,
            value, block, offset, entries, k + 1, short)

\* The loop over m_sector_cache for the keys of todo, in key order: the keys
\* below the median first, the others from the files those leave
RECURSIVE FlushSectors(_, _, _, _, _)
FlushSectors(fs, cache, entries, todo, short) ==
    IF todo = {} THEN fs
    ELSE IF Cardinality(todo) = 1
    THEN LET key   == MinLoc(todo)
             value == cache[key]
             bo    == track_sector_to_block_and_offset(key[1], key[2])
         IN IF value.m_dirty /\ key[1] > 1
            THEN FlushSectorEntries(fs, value, bo[1], bo[2], entries, 1, short)
            ELSE fs
    ELSE LET mid   == CHOOSE a \in todo :
                         Cardinality({b \in todo : LocLess(b, a)}) = Cardinality(todo) \div 2
             lower == {b \in todo : LocLess(b, mid)}
             half  == FlushSectors(fs, cache, entries, lower, short)
         IN IF Cardinality(DOMAIN half) >= 0
            THEN FlushSectors(half, cache, entries, todo \ lower, short)
            ELSE half

\* the write of the dirty data sector at 'key' fails for some owning entry:
\* its file cannot be opened, or fwrite comes up short
WriteFails(fs, cache, entries, key, short) ==
    /\ cache[key].m_dirty /\ key[1] > 1
    /\ \E k \in 1..Len(entries) :
          /\ entries[k].m_exists
          /\ \E i \in 1..Len(entries[k].m_blocks) :
                entries[k].m_blocks[i] = track_sector_to_block_and_offset(key[1], key[2])[1]
          /\ \/ entries[k].m_raw_name \notin DOMAIN fs
             \/ Fwrite(short, entries[k].m_raw_name) < SectorSize

\* (a variant that leaves the loop after the first sector whose write fails)
flush_changed_sectors_to_host_filesystem_until_failure(fs, cache, entries, short) ==
    FlushSectors(fs, cache, entries,
                 {key \in DOMAIN cache :
                    \A b \in DOMAIN cache :
                       LocLess(b, key) => ~WriteFails(fs, cache, entries, b, short)},
                 short)

flush_changed_sectors_to_host_filesystem(fs, cache, entries, short) ==
    FlushSectors(fs, cache, entries, DOMAIN cache, short)

\* Disk::Private::flush_to_host_filesystem, called by ~Private, which catches
\* the exception of a failed flush.  Result: [fs, cache]
flush_to_host_filesystem(fs, cache, entries, short) ==
    LET a == flush_file_changes_to_host_filesystem(fs, cache, entries) IN
    IF a.threw THEN [fs |-> a.fs, cache |-> a.cache]
    ELSE [fs    |-> flush_changed_sectors_to_host_filesystem(a.fs, a.cache, entries, short),
          cache |-> a.cache]

-----------------------------------------------------------------------------
(* Inputs of the disk specification: host directories and the sector       *)
(* buffers a guest BDOS hands to Disk::write                               *)

RawA == <<97, 46, 116, 120, 116>>     \* "a.txt"
RawB == <<98, 46, 116, 120, 116>>     \* "b.txt"
NameA == convert(<<97>>, <<46, 116, 120, 116>>)   \* "A       TXT"
NameB == convert(<<98>>, <<46, 116, 120, 116>>)   \* "B       TXT"

Fill(v) == [i \in 1..SectorSize |-> v]

\* A host file of n bytes, all of value v, as sectors
HostFile(n, v) ==
    [k \in 1..((n + SectorSize - 1) \div SectorSize) |->
        [i \in 1..Min(SectorSize, n - (k - 1) * SectorSize) |-> v]]

HostSize(data) ==
    IF data = <<>> THEN 0 ELSE (Len(data) - 1) * SectorSize + Len(data[Len(data)])

\* The host directories the disk is constructed over, each in an iteration
\* order that std::filesystem::directory_iterator may produce
HostDirs ==
    { <<>>,
      << [name |-> RawA, data |-> HostFile(128, 65)] >>,
      << [name |-> RawA, data |-> HostFile(128, 65)],
         [name |-> RawB, data |-> HostFile(200, 66)] >>,
      << [name |-> RawB, data |-> HostFile(200, 66)],
         [name |-> RawA, data |-> HostFile(128, 65)] >> }

DirListing(dir) == [i \in 1..Len(dir) |-> [name |-> dir[i].name, size |-> HostSize(dir[i].data)]]

\* One 32-byte directory slot as the guest BDOS lays it out
MkSlot(user, name, ex, rc, blocks) ==
    [i \in 1..EntrySize |->
       IF i = 1 THEN user
       ELSE IF i <= 12 THEN name[i - 1]
       ELSE IF i = 13 THEN ex
       ELSE IF i = 16 THEN rc
       ELSE IF i >= 17 /\ (i - 17) \div 2 < Len(blocks)
            THEN (IF (i - 17) % 2 = 0 THEN Lo(blocks[(i - 17) \div 2 + 1])
                                      ELSE Hi(blocks[(i - 17) \div 2 + 1]))
       ELSE 0]

EmptySlot == [i \in 1..EntrySize |-> Inactive]

DirSector(s0, s1) == s0 \o s1 \o EmptySlot \o EmptySlot

DirBuffers ==
    { DirSector(MkSlot(Inactive, NameA, 0, 1, <<16>>), EmptySlot),   \* A erased
      DirSector(MkSlot(0, NameA, 0, 0, <<>>), EmptySlot),            \* A made, empty
      DirSector(MkSlot(0, NameA, 0, 1, <<16>>), EmptySlot),          \* A with block 16
      DirSector(MkSlot(0, NameA, 0, 1, <<17>>), EmptySlot),          \* A with block 17
      DirSector(MkSlot(0, NameB, 0, 1, <<16>>), EmptySlot),          \* B with block 16
      DirSector(MkSlot(Inactive, NameA, 0, 1, <<16>>),
                MkSlot(0, NameA, 0, 1, <<17>>)) }                    \* A erased, new A

DataBuffers == { Fill(17), Fill(34) }

DirLocs  == { <<0, 0>> }
DataLocs == { <<2, 0>>, <<2, 16>> }

NoLoc == <<>>

-----------------------------------------------------------------------------
(* The guest's own view of the directory, kept as history: what it last    *)
(* did to the slot of each file name                                       *)

GuestSlot(st, blocks, rc) == [st |-> st, blocks |-> blocks, rc |-> rc]

GuestInit(entries) ==
    [n \in {entries[i].m_raw_name : i \in 1..Len(entries)} |->
        LET i == CHOOSE i \in 1..Len(entries) : entries[i].m_raw_name = n
        IN GuestSlot("live", entries[i].m_blocks, entries[i].m_sectors)]

GuestApply(h, p) ==
    LET n == p.m_raw_name IN
    IF p.m_name = [i \in 1..11 |-> Inactive] THEN h
    ELSE IF p.m_exists
    THEN (n :> GuestSlot(IF n \in DOMAIN h /\ h[n].st \in {"erased", "recreated"}
                         THEN "recreated" ELSE "live",
                         p.m_blocks, p.m_sectors)) @@ h
    ELSE IF n \in DOMAIN h /\ h[n].st # "erased" /\ h[n].blocks = p.m_blocks
         THEN [h EXCEPT ![n].st = "erased"]
         ELSE h

RECURSIVE GuestSlots(_, _, _)
GuestSlots(h, buffer, i) ==
    IF i >= 4 THEN h
    ELSE GuestSlots(GuestApply(h, EntryFromBuffer(SubSeq(buffer, i * EntrySize + 1,
                                                         (i + 1) * EntrySize))),
                    buffer, i + 1)

-----------------------------------------------------------------------------
(* The rest of the machine while only the disk is exercised *)

NoBios == [present |-> FALSE, m_discovered_base |-> 0, m_stubs_base |-> 0,
           m_stubs_top |-> 0, m_dph_base |-> 0, m_dph_top |-> 0,
           m_track |-> 0, m_sector |-> 0, m_dma |-> 128]

ResetCpu == [m_pc |-> 0, sp |-> 65535, a |-> 255, f |-> 255,
             bc |-> 0, de |-> 0, hl |-> 0, ix |-> 0, iy |-> 0,
             m_iff1 |-> 0, m_iff2 |-> 0,
             m_i |-> 0, m_r |-> 0, m_im |-> "IM0", r |-> 0, r_written |-> 0]

NoHist == [kind |-> "none"]

SysIdle ==
    /\ mem = <<>>
    /\ cpu = ResetCpu
    /\ pc = 0
    /\ m_effective_pc = 0
    /\ m_finished = FALSE
    /\ m_check_memory_accesses = FALSE
    /\ m_enable_memory_checks = TRUE
    /\ bios = NoBios
    /\ m_fbase = 0
    /\ phase = "none"
    /\ fault = "none"
    /\ term = <<>>
    /\ m_output_handler = "none"
    /\ runs = 0
    /\ steps = 0
    /\ passes = 0
    /\ m_debug_actions = <<>>
    /\ elapsed_cycles = 0
    /\ max_cycles = 0
    /\ m_symbols = <<>>
    /\ hist = NoHist

-----------------------------------------------------------------------------
(* The disk specification: Disk() over a host directory, then reads and    *)
(* writes of sectors, then ~Disk()                                         *)

DiskInit ==
    /\ \E dir \in HostDirs :
          LET st == build_directory(DirListing(dir),
                                    [entries |-> <<>>, next |-> InitialNextBlock])
          IN /\ m_entries = st.entries
             /\ m_next_block = st.next
             /\ hostfs = [n \in {dir[i].name : i \in 1..Len(dir)} |->
                             dir[CHOOSE i \in 1..Len(dir) : dir[i].name = n].data]
             /\ dirHist = GuestInit(st.entries)
    /\ m_sector_cache = <<>>
    /\ diskPhase = "live"
    /\ readLoc = NoLoc
    /\ readBuf = <<>>
    /\ written = <<>>
    /\ diskOps = 0
    /\ SysIdle

\* Disk::read(buffer, track, sector); the caller's buffer starts zeroed
DiskReadOp(loc) ==
    /\ diskPhase = "live"
    /\ diskOps < MaxDiskOps
    /\ LET r == DiskRead(m_entries, m_sector_cache, hostfs, ZeroSector, loc[1], loc[2])
       IN /\ ~r.threw
          /\ m_sector_cache' = r.cache
          /\ readBuf' = r.buf
          /\ readLoc' = loc
    /\ diskOps' = diskOps + 1
    /\ UNCHANGED <<m_entries, m_next_block, hostfs, diskPhase, written, dirHist>>
    /\ UNCHANGED sysVars

\* Disk::write(buffer, track, sector)
DiskWriteOp(loc, buffer) ==
    /\ diskPhase = "live"
    /\ diskOps < MaxDiskOps
    /\ LET r == DiskWrite(m_entries, m_next_block, m_sector_cache, buffer, loc[1], loc[2])
       IN /\ m_entries' = r.entries
          /\ m_next_block' = r.next
          /\ m_sector_cache' = r.cache
    /\ written' = (loc :> buffer) @@ written
    /\ dirHist' = IF loc[1] \in {0, 1} THEN GuestSlots(dirHist, buffer, 0) ELSE dirHist
    /\ readLoc' = NoLoc
    /\ readBuf' = <<>>
    /\ diskOps' = diskOps + 1
    /\ UNCHANGED <<hostfs, diskPhase>>
    /\ UNCHANGED sysVars

\* ~Disk(): the flush to the host file system
DiskFlushOp ==
    /\ diskPhase = "live"
    /\ LET r == flush_to_host_filesystem(hostfs, m_sector_cache, m_entries, NoShortWrites)
       IN /\ hostfs' = r.fs
          /\ m_sector_cache' = r.cache
    /\ diskPhase' = "flushed"
    /\ readLoc' = NoLoc
    /\ readBuf' = <<>>
    /\ UNCHANGED <<m_entries, m_next_block, written, dirHist, diskOps>>
    /\ UNCHANGED sysVars

DiskNext ==
    \/ \E loc \in DirLocs \cup DataLocs : DiskReadOp(loc)
    \/ \E loc \in DirLocs : \E b \in DirBuffers : DiskWriteOp(loc, b)
    \/ \E loc \in DataLocs : \E b \in DataBuffers : DiskWriteOp(loc, b)
    \/ DiskFlushOp

SpecDisk == DiskInit /\ [][DiskNext]_vars

-----------------------------------------------------------------------------
(* The directory specification: Disk::Private::Private() alone, over what  *)
(* directory_iterator and file_size report.  build_directory asks the host *)
(* for names and sizes only, so the listing (kept in hist.files) stands    *)
(* for the directory and the contents of the files are not represented.    *)

RawLog == ZcpmLog

\* the limits of the disk parameter block that Bios::Bios hands to the guest
DSM == 2039     \* 0x07F7: the highest block number
DRM == 1023     \* 0x03FF: the highest directory entry number

\* the size of a file that needs one block more than 16..DSM
OverDsmBytes == (DSM - InitialNextBlock + 1) * BlockSize + 1

\* File sizes around the sector, block and extent limits, one over the
\* blocks of the disk parameter block, and one of 2^16 sectors
ScanSizes == {0, 1, 128, 129, 2048, 2049, 16384, 16385, 32769, OverDsmBytes,
              65536 * SectorSize}

ScanSmall == {0, 129, 16385}

ScanListings ==
    {<<>>}
    \cup {<<[name |-> n, size |-> z]>> : n \in {RawA, RawB, RawLog}, z \in ScanSizes}
    \cup UNION {{<<[name |-> n1, size |-> z1], [name |-> n2, size |-> z2]>> :
                    n2 \in {RawA, RawB, RawLog} \ {n1}, z1 \in ScanSizes, z2 \in ScanSmall} :
                 n1 \in {RawA, RawB, RawLog}}

DirInit ==
    /\ \E files \in ScanListings : hist = [kind |-> "scan", files |-> files]
    /\ m_entries = <<>>
    /\ m_next_block = InitialNextBlock
    /\ hostfs = <<>>
    /\ dirHist = <<>>
    /\ m_sector_cache = <<>>
    /\ diskPhase = "none"
    /\ readLoc = NoLoc
    /\ readBuf = <<>>
    /\ written = <<>>
    /\ diskOps = 0
    /\ mem = <<>>
    /\ cpu = ResetCpu
    /\ pc = 0
    /\ m_effective_pc = 0
    /\ m_finished = FALSE
    /\ m_check_memory_accesses = FALSE
    /\ m_enable_memory_checks = TRUE
    /\ bios = NoBios
    /\ m_fbase = 0
    /\ phase = "none"
    /\ fault = "none"
    /\ term = <<>>
    /\ m_output_handler = "none"
    /\ runs = 0
    /\ steps = 0
    /\ passes = 0
    /\ m_debug_actions = <<>>
    /\ elapsed_cycles = 0
    /\ max_cycles = 0
    /\ m_symbols = <<>>

\* Disk::Private::Private(): build_directory()
DirConstruct ==
    /\ diskPhase = "none"
    /\ hist.kind = "scan"
    /\ LET st == build_directory(hist.files, [entries |-> m_entries, next |-> m_next_block])
       IN /\ m_entries' = st.entries
          /\ m_next_block' = st.next
    /\ diskPhase' = "live"
    /\ UNCHANGED <<m_sector_cache, hostfs, readLoc, readBuf, written, dirHist, diskOps>>
    /\ UNCHANGED sysVars

DirNext == DirConstruct

SpecDir == DirInit /\ [][DirNext]_vars

-----------------------------------------------------------------------------
(* SymbolTable (src/core/symboltable.cpp).  m_symbols is the multimap in its *)
(* iteration order: ascending keys, equal keys in the order of insertion.    *)
(* A symbol is [key, ns, label]; ns and label are strings, kept as sequences *)
(* of characters.                                                            *)

ZCPM == <<"Z", "C", "P", "M">>

\* SymbolTable::add: the multimap's insert places the element after those
\* whose key is not greater
add(symbols, prefix, a, label) ==
    LET k == Cardinality({i \in 1..Len(symbols) : symbols[i].key <= a})
    IN SubSeq(symbols, 1, k) \o <<[key |-> a, ns |-> prefix, label |-> label]>>
         \o SubSeq(symbols, k + 1, Len(symbols))

HexDigits == <<"0", "1", "2", "3", "4", "5", "6", "7",
               "8", "9", "A", "B", "C", "D", "E", "F">>

\* the digits of n in base 16, upper case, most significant first
RECURSIVE ToHex(_)
ToHex(n) ==
    IF n < 16 THEN <<HexDigits[n + 1]>>
    ELSE Append(ToHex(n \div 16), HexDigits[(n % 16) + 1])

\* boost::format("%04X") % n: padded with zeros to four digits
Format04X(n) ==
    LET h == ToHex(n) IN [i \in 1..(4 - Len(h)) |-> "0"] \o h

\* describe that walks the map forwards: the first symbol not above a
describe_forwards(symbols, a) ==
    LET S == {i \in 1..Len(symbols) : symbols[i].key <= a}
    IN IF S = {} THEN <<"?">>
       ELSE LET it == symbols[CHOOSE i \in S : \A j \in S : i <= j]
            IN it.ns \o <<":">> \o it.label \o <<"+">> \o Format04X(a - it.key)

\* SymbolTable::describe(a): from rbegin() on, the first symbol whose key is
\* not above a, formatted as "%s:%s+%04X"; "?" when there is none
describe(symbols, a) ==
    LET S == {i \in 1..Len(symbols) : symbols[i].key <= a}
    IN IF S = {} THEN <<"?">>
       ELSE LET it == symbols[CHOOSE i \in S : \A j \in S : j <= i]
            IN it.ns \o <<":">> \o it.label \o <<"+">> \o Format04X(a - it.key)

-----------------------------------------------------------------------------
(* Hardware: the 64 KiB memory (src/core/hardware.cpp).  m_memory is filled  *)
(* with zero at construction; the model stores the non-zero bytes only.     *)

MemRead(m, address) == IF address \in DOMAIN m THEN m[address] ELSE 0

MemStore(m, address, x) ==
    IF x = 0 THEN [a \in DOMAIN m \ {address} |-> m[a]]
    ELSE (address :> x) @@ m

\* read_word with the high byte from address + 1, not wrapped
read_word_unwrapped(m, address) ==
    MemRead(m, address) + 256 * MemRead(m, address + 1)

\* Hardware::read_word: little-endian, the high byte from (address + 1) & 0xffff
read_word(m, address) ==
    MemRead(m, address) + 256 * MemRead(m, (address + 1) % 65536)

\* the anonymous-namespace is_fatal_write()
is_fatal_write(address) ==
    IF address <= 2 THEN TRUE
    ELSE IF address >= 5 /\ address <= 7 THEN TRUE
    ELSE FALSE

\* Bios::is_bios
is_bios(b, address) ==
    address >= b.m_discovered_base /\ address <= b.m_stubs_top

\* Hardware::m_watch_write: page zero from the constructor, the DPH area
\* from the Bios constructor
WatchWrite(b) ==
    (0..255) \cup (IF b.present THEN b.m_dph_base..b.m_dph_top ELSE {})

\* Hardware::check_watched_memory_byte for Access::WRITE: "none" or the
\* message of the exception thrown.  chk is m_enable_memory_checks &&
\* m_check_memory_accesses.
check_watched_memory_byte(chk, b, address) ==
    IF ~chk THEN "none"
    ELSE IF address \in WatchWrite(b) /\ is_fatal_write(address)
         THEN "Aborting: illegal memory write"
    ELSE IF b.present /\ is_bios(b, address) THEN "BIOS tampering!"
    ELSE "none"

\* (a variant that looks at the first byte of the word only)
check_watched_memory_word_first_only(chk, b, address) ==
    IF ~chk THEN "none"
    ELSE IF address \in WatchWrite(b) /\ is_fatal_write(address)
         THEN "Aborting: illegal memory write"
    ELSE IF b.present /\ is_bios(b, address) THEN "BIOS tampering!"
    ELSE "none"

\* Hardware::check_watched_memory_word for Access::WRITE.  The set lookups
\* and is_bios take a uint16_t, so address + 1 wraps to 0 at 0xFFFF.
check_watched_memory_word(chk, b, address) ==
    IF ~chk THEN "none"
    ELSE IF (address \in WatchWrite(b) \/ U16(address + 1) \in WatchWrite(b))
            /\ is_fatal_write(address)
         THEN "Aborting: illegal memory write"
    ELSE IF b.present /\ (is_bios(b, address) \/ is_bios(b, U16(address + 1)))
         THEN "BIOS tampering!"
    ELSE "none"

\* Hardware::copy_to_ram: unconditional, clamped to the end of RAM
copy_to_ram(m, buffer, base) ==
    LET count == Min(Len(buffer), 65536 - base) IN
    [a \in ((DOMAIN m \ (base..(base + count - 1)))
            \cup {base + i - 1 : i \in {j \in 1..count : buffer[j] # 0}}) |->
        IF a >= base /\ a < base + count THEN buffer[a - base + 1] ELSE m[a]]

\* Hardware::copy_from_ram into a zero-initialised buffer of 'count' bytes
copy_from_ram(m, count, base) ==
    LET n == Min(count, 65536 - base) IN
    [i \in 1..count |-> IF i <= n THEN MemRead(m, base + i - 1) ELSE 0]

-----------------------------------------------------------------------------
(* The machine state that one driver call or one instruction works on.     *)
(* An exception in flight is M.fault # "none": every later effect of the   *)
(* same call is skipped, as the stack unwinds.                             *)

Thrown(M) == M.fault # "none"

Throw(M, msg) == IF Thrown(M) THEN M ELSE [M EXCEPT !.fault = msg]

Chk(M) == M.enable /\ M.check

SetReg(M, name, v) == IF Thrown(M) THEN M ELSE [M EXCEPT !.r[name] = v]

SetPc(M, v) == IF Thrown(M) THEN M ELSE [M EXCEPT !.pc = U16(v)]

reg_c(M) == M.r.bc % 256

\* Hardware::write_byte(address, x): the check, then the store
write_byte(M, address, x) ==
    IF Thrown(M) THEN M
    ELSE LET f == check_watched_memory_byte(Chk(M), M.bios, address)
             w == [addr |-> address, width |-> 1, chk |-> Chk(M),
                   val |-> <<U8(x)>>, old |-> <<MemRead(M.mem, address)>>]
         IN IF f # "none"
            THEN [M EXCEPT !.fault = f, !.wlog = Append(@, w @@ [stored |-> FALSE])]
            ELSE [M EXCEPT !.mem = MemStore(M.mem, address, U8(x)),
                           !.wlog = Append(@, w @@ [stored |-> TRUE])]

\* Hardware::write_word(address, x)
write_word(M, address, x) ==
    IF Thrown(M) THEN M
    ELSE LET f == check_watched_memory_word(Chk(M), M.bios, address)
             w == [addr |-> address, width |-> 2, chk |-> Chk(M),
                   val |-> <<U8(x), U8(x \div 256)>>,
                   old |-> <<MemRead(M.mem, address), MemRead(M.mem, (address + 1) % 65536)>>]
         IN IF f # "none"
            THEN [M EXCEPT !.fault = f, !.wlog = Append(@, w @@ [stored |-> FALSE])]
            ELSE [M EXCEPT !.mem = MemStore(MemStore(M.mem, address, U8(x)),
                                            (address + 1) % 65536, U8(x \div 256)),
                           !.wlog = Append(@, w @@ [stored |-> TRUE])]

\* Hardware::push: SP is decremented before the checked write
push(M, x) ==
    IF Thrown(M) THEN M
    ELSE LET M1 == SetReg(M, "sp", U16(M.r.sp + 65534)) IN
         write_word(M1, M1.r.sp, x)

\* Hardware::check_memory_accesses
check_memory_accesses(M, protect) ==
    IF Thrown(M) THEN M
    ELSE IF M.enable /\ M.check # protect THEN [M EXCEPT !.check = protect] ELSE M

-----------------------------------------------------------------------------
(* Bios (src/core/bios.cpp) *)

table_size == 33

\* A run of Hardware::write_byte / write_word calls made one after another,
\* where none of them changes what the checks read: the calls up to the first
\* one that throws take effect, in order.
ByteWrite(address, x) == [addr |-> U16(address), width |-> 1, val |-> x]
WordWrite(address, x) == [addr |-> U16(address), width |-> 2, val |-> x]

Covers(w, a) == a = w.addr \/ (w.width = 2 /\ a = (w.addr + 1) % 65536)

CheckOf(M, w) ==
    IF w.width = 1 THEN check_watched_memory_byte(Chk(M), M.bios, w.addr)
    ELSE check_watched_memory_word(Chk(M), M.bios, w.addr)

WriteRun(M, ws) ==
    IF Thrown(M) THEN M
    ELSE LET bad  == {k \in 1..Len(ws) : CheckOf(M, ws[k]) # "none"}
             n    == IF bad = {} THEN Len(ws)
                     ELSE (CHOOSE k \in bad : \A j \in bad : k <= j) - 1
             touched == UNION {{a \in {ws[k].addr, (ws[k].addr + 1) % 65536} :
                                  Covers(ws[k], a)} : k \in 1..n}
             on(a)   == {k \in 1..n : Covers(ws[k], a)}
             last(a) == CHOOSE k \in on(a) : \A j \in on(a) : j <= k
             newv(a) == IF a = ws[last(a)].addr THEN U8(ws[last(a)].val)
                        ELSE U8(ws[last(a)].val \div 256)
         IN [M EXCEPT !.mem = [a \in ((DOMAIN M.mem \ touched)
                                      \cup {t \in touched : newv(t) # 0}) |->
                                  IF a \in touched THEN newv(a) ELSE M.mem[a]],
                      !.fault = IF bad = {} THEN "none" ELSE CheckOf(M, ws[n + 1])]

\* the loop that rewrites the operand of each JP of the table
WriteJumpTable(M, base, stubs_base) ==
    WriteRun(M, [k \in 1..table_size |->
                    WordWrite(base + (k - 1) * 3 + 1, U16(stubs_base + (k - 1)))])

\* the loop that writes a RET at each stub
WriteStubs(M, stubs_base) ==
    WriteRun(M, [k \in 1..table_size |-> ByteWrite(stubs_base + (k - 1), 201)])

\* a for-loop of write_byte(i, 0x00) over lo..hi
ZeroFill(M, lo, hi) ==
    IF Thrown(M) THEN M
    ELSE LET bad  == {a \in lo..hi : check_watched_memory_byte(Chk(M), M.bios, a) # "none"}
             stop == IF bad = {} THEN hi + 1 ELSE CHOOSE a \in bad : \A b \in bad : a <= b
         IN [M EXCEPT !.mem = [a \in DOMAIN M.mem \ (lo..(stop - 1)) |-> M.mem[a]],
                      !.fault = IF bad = {} THEN "none"
                                ELSE check_watched_memory_byte(Chk(M), M.bios, stop)]

\* the addresses Bios::Bios derives from the discovered base
BiosLayout(base) ==
    LET stubs_base == U16(base + 256)
        stubs_top  == U16(stubs_base + table_size - 1)
        dph_base   == U16(stubs_top + 1)
    IN [base |-> base, stubs_base |-> stubs_base, stubs_top |-> stubs_top,
        dph_base |-> dph_base, dirbf |-> dph_base + 16, hdblk |-> dph_base + 144,
        chkhd1 |-> dph_base + 160, allhd1 |-> dph_base + 176,
        dph_top |-> U16(dph_base + 176 + 255)]

\* the DPH and the DPB (HDBLK) that Bios::Bios writes
DphWrites(L) ==
    << WordWrite(L.dph_base + 0, 0),
       WordWrite(L.dph_base + 2, 0),
       WordWrite(L.dph_base + 4, 0),
       WordWrite(L.dph_base + 6, 0),
       WordWrite(L.dph_base + 8, U16(L.dirbf)),
       WordWrite(L.dph_base + 10, U16(L.hdblk)),
       WordWrite(L.dph_base + 12, U16(L.chkhd1)),
       WordWrite(L.dph_base + 14, U16(L.allhd1)),
       WordWrite(L.hdblk + 0, 128),
       ByteWrite(L.hdblk + 2, BSH),
       ByteWrite(L.hdblk + 3, BLM),
       ByteWrite(L.hdblk + 4, 0),
       WordWrite(L.hdblk + 5, 2039),
       WordWrite(L.hdblk + 7, 1023),
       ByteWrite(L.hdblk + 9, 255),
       ByteWrite(L.hdblk + 10, 255),
       WordWrite(L.hdblk + 11, 0),
       WordWrite(L.hdblk + 13, 0) >>

\* the members Bios::Bios sets; m_track, m_sector, m_dma from bios.hpp
BiosMembers(M, L) ==
    IF Thrown(M) THEN M
    ELSE [M EXCEPT !.bios = [present |-> TRUE,
                             m_discovered_base |-> L.base,
                             m_stubs_base |-> L.stubs_base,
                             m_stubs_top |-> L.stubs_top,
                             m_dph_base |-> L.dph_base,
                             m_dph_top |-> L.dph_top,
                             m_track |-> 0, m_sector |-> 0, m_dma |-> 128]]

\* Hardware::add_symbol(a, label), a being a uint16_t
add_symbol(M, a, label) == [M EXCEPT !.symbols = add(@, ZCPM, U16(a), label)]

\* the add_symbol calls that end the constructor
AddSymbols(M, L) ==
    IF Thrown(M) THEN M
    ELSE add_symbol(
           add_symbol(
             add_symbol(
               add_symbol(
                 add_symbol(M, L.dph_base, <<"D", "P", "H", "B", "A", "S", "E">>),
                 L.dirbf, <<"D", "I", "R", "B", "F">>),
               L.hdblk, <<"H", "D", "B", "L", "K">>),
             L.allhd1, <<"A", "L", "L", "H", "D", "1">>),
           L.dph_top, <<"D", "P", "H", "T", "O", "P">>)

\* (a variant whose sanity check looks at the first entry only)
BiosAt_first_only(M, L) ==
    IF MemRead(M.mem, L.base) # 195
    THEN Throw(M, "BIOS jump table not found")
    ELSE AddSymbols(
           BiosMembers(
             ZeroFill(
               WriteRun(
                 ZeroFill(
                   WriteStubs(WriteJumpTable(M, L.base, L.stubs_base), L.stubs_base),
                   L.base + table_size * 3, L.stubs_base - 1),
                 DphWrites(L)),
               L.dph_top + 1, 65535),
             L),
           L)

\* the body of Bios::Bios once the base is known: the sanity check, the
\* rewritten table, the stubs, the fills, the DPH
BiosAt(M, L) ==
    IF MemRead(M.mem, L.base) # 195 \/ MemRead(M.mem, U16(L.base + 3)) # 195
    THEN Throw(M, "BIOS jump table not found")
    ELSE AddSymbols(
           BiosMembers(
             ZeroFill(
               WriteRun(
                 ZeroFill(
                   WriteStubs(WriteJumpTable(M, L.base, L.stubs_base), L.stubs_base),
                   L.base + table_size * 3, L.stubs_base - 1),
                 DphWrites(L)),
               L.dph_top + 1, 65535),
             L),
           L)

\* Disk::Disk as the member m_disk of Bios: the scan of the host directory
DiskConstruct(M, dir) == [M EXCEPT !.entries = dir.entries, !.next = dir.next]

\* Bios::Bios.  m_disk is a member, so Disk() has scanned the host directory
\* before the body runs.  m_pbios is still null while the body runs.
BiosConstruct(M0) ==
    BiosAt(DiskConstruct(M0, build_directory(M0.listing,
                                             [entries |-> <<>>, next |-> InitialNextBlock])),
           BiosLayout(U16(MemRead(M0.mem, 1) + 256 * MemRead(M0.mem, 2) - 3)))

fn_boot(M) == write_byte(write_byte(M, 3, 0), 4, 0)

fn_settrk(M, track)  == IF Thrown(M) THEN M ELSE [M EXCEPT !.bios.m_track = track]
fn_setsec(M, sector) == IF Thrown(M) THEN M ELSE [M EXCEPT !.bios.m_sector = sector]
fn_setdma(M, base)   == IF Thrown(M) THEN M ELSE [M EXCEPT !.bios.m_dma = base]

\* (a variant that goes to sector 0 as well)
fn_home_and_sector(M) == fn_setsec(fn_settrk(M, 0), 0)

\* Bios::fn_home
fn_home(M) == fn_settrk(M, 0)

fn_seldsk(M) == SetReg(M, "hl", M.bios.m_dph_base)

fn_wboot(M) == fn_home(fn_seldsk(M))

\* Bios::fn_read after m_disk.read: the sector into RAM at m_dma, A <- 0
ReadDone(M, r) ==
    IF r.threw THEN Throw(M, "File open failed")
    ELSE SetReg([M EXCEPT !.cache = r.cache,
                          !.mem = copy_to_ram(M.mem, r.buf, M.bios.m_dma)],
                "a", 0)

\* Bios::fn_read: the sector at m_track/m_sector
fn_read(M) ==
    IF Thrown(M) THEN M
    ELSE ReadDone(M, DiskRead(M.entries, M.cache, M.fs, ZeroSector,
                              M.bios.m_track, M.bios.m_sector))

\* Bios::fn_write after m_disk.write: A <- 0
WriteDone(M, r) ==
    SetReg([M EXCEPT !.entries = r.entries, !.next = r.next, !.cache = r.cache], "a", 0)

\* Bios::fn_write: 128 bytes of RAM at m_dma into the sector
fn_write(M) ==
    IF Thrown(M) THEN M
    ELSE WriteDone(M, DiskWrite(M.entries, M.next, M.cache,
                                copy_from_ram(M.mem, SectorSize, M.bios.m_dma),
                                M.bios.m_track, M.bios.m_sector))

\* the switch of Bios::check_and_handle; env is what the terminal answers
BiosService(M, fn, env) ==
    CASE fn = 0  -> fn_boot(M)
      [] fn = 1  -> [M EXCEPT !.fin = TRUE]
      [] fn = 2  -> SetReg(M, "a", IF env.ready THEN 255 ELSE 0)
      [] fn = 3  -> SetReg(M, "a", env.ch)
      [] fn = 4  -> [M EXCEPT !.term = Append(@, reg_c(M))]
      [] fn = 8  -> fn_home(M)
      [] fn = 9  -> fn_seldsk(M)
      [] fn = 10 -> fn_settrk(M, M.r.bc)
      [] fn = 11 -> fn_setsec(M, M.r.bc)
      [] fn = 12 -> fn_setdma(M, M.r.bc)
      [] fn = 13 -> fn_read(M)
      [] fn = 14 -> fn_write(M)
      [] fn = 16 -> SetReg(M, "hl", M.r.bc)
      [] OTHER   -> Throw(M, "BIOS unfinished, FIXME!")

\* the end of Bios::check_and_handle for an intercepted address
Handled(M) == [M |-> M, ret |-> IF Thrown(M) THEN "threw" ELSE "true"]

\* (a variant that services an intercepted address a second time)
check_and_handle_twice(M, address, env) ==
    IF address < M.bios.m_stubs_base \/ address > M.bios.m_stubs_top
    THEN [M |-> M, ret |-> "false"]
    ELSE Handled(BiosService(BiosService(M, address - M.bios.m_stubs_base, env),
                             address - M.bios.m_stubs_base, env))

\* Bios::check_and_handle.  Result: [M, ret]; ret is "true", "false", or
\* "threw" when the call does not return
check_and_handle(M, address, env) ==
    IF address < M.bios.m_stubs_base \/ address > M.bios.m_stubs_top
    THEN [M |-> M, ret |-> "false"]
    ELSE Handled(BiosService(M, address - M.bios.m_stubs_base, env))

\* (a variant that leaves the BIOS stubs alone while the memory checks are on)
check_and_handle_bdos_and_bios_unchecked(M, address, env) ==
    IF address = M.fbase \/ Chk(M) THEN [M |-> M, ret |-> "false"]
    ELSE IF M.bios.present THEN check_and_handle(M, address, env)
    ELSE [M |-> M, ret |-> "false"]

\* Hardware::check_and_handle_bdos_and_bios
check_and_handle_bdos_and_bios(M, address, env) ==
    IF address = M.fbase THEN [M |-> M, ret |-> "false"]
    ELSE IF M.bios.present THEN check_and_handle(M, address, env)
    ELSE [M |-> M, ret |-> "false"]

-----------------------------------------------------------------------------
(* Processor (src/core/processor.cpp): the part of the instruction set     *)
(* that the guest programs of this model use                               *)

\* INSTRUCTION_TABLE[opcode] for the opcodes of the model, as the Z80
\* encodes them; any other opcode is outside the model
Decode(opcode) ==
    CASE opcode = 0   -> "NOP"
      [] opcode \in {1, 17, 33, 49}      -> "LD_RR_NN"
      [] opcode \in {14, 62}             -> "LD_R_N"
      [] opcode = 34  -> "LD_INDIRECT_NN_HL"
      [] opcode = 50  -> "LD_INDIRECT_NN_A"
      [] opcode = 60  -> "INC_R"
      [] opcode = 118 -> "HALT"
      [] opcode = 195 -> "JP_NN"
      [] opcode = 201 -> "RET"
      [] opcode = 205 -> "CALL_NN"
      [] opcode \in {199, 207, 215, 223, 231, 239, 247, 255} -> "RST_P"
      [] opcode = 211 -> "OUT_N_A"
      [] opcode \in {197, 213, 229}      -> "PUSH_SS"
      [] opcode \in {193, 209, 225, 241} -> "POP_SS"
      [] opcode = 243 -> "DI"
      [] opcode = 251 -> "EI"
      [] opcode = 221 -> "DD_PREFIX"
      [] opcode = 253 -> "FD_PREFIX"
      [] opcode = 237 -> "ED_PREFIX"
      [] opcode = 203 -> "CB_PREFIX"
      [] OTHER        -> "OUTSIDE"

\* ED_INSTRUCTION_TABLE[opcode] for the opcodes of the model
DecodeED(opcode) ==
    CASE opcode \in {176, 184} -> "LDIR_LDDR"
      [] opcode \in {87, 95}   -> "LD_A_I_LD_A_R"
      [] opcode \in {71, 79}   -> "LD_I_A_LD_R_A"
      [] opcode \in {70, 86, 94} -> "IM_N"
      [] OTHER                 -> "OUTSIDE"

\* CB_INSTRUCTION_TABLE[opcode] for the opcodes of the model: SET 0,B,
\* SET 0,(HL) and SET 0,A
DecodeCB(opcode) ==
    CASE opcode \in {192, 199} -> "SET_B_R"
      [] opcode = 198          -> "SET_B_INDIRECT_HL"
      [] OTHER                 -> "OUTSIDE"

\* the opcodes that have an IX and IY form
DdFdPrefixable ==
    {9, 25, 33, 34, 35, 36, 37, 38, 41, 42, 43, 44, 45, 46, 52, 53, 54, 57, 68, 69,
     70, 76, 77, 78, 84, 85, 86, 92, 93, 94, 96, 97, 98, 99, 100, 101, 102, 103,
     104, 105, 106, 107, 108, 109, 110, 111, 112, 113, 114, 115, 116, 117, 119,
     124, 125, 126, 132, 133, 134, 140, 141, 142, 148, 149, 150, 156, 157, 158,
     164, 165, 166, 172, 173, 174, 180, 181, 182, 188, 189, 190, 203, 225, 227,
     229, 233, 249}

OPCODE_LDIR == 176
OPCODE_LD_A_I == 87
OPCODE_LD_I_A == 71

Z(opcode) == opcode % 8

Y(opcode) == (opcode \div 8) % 8
P(opcode) == (opcode \div 16) % 4

RST_TABLE == <<0, 8, 16, 24, 32, 40, 48, 56>>

\* the default m_register_table: RR(p) and SS(p) for p = 0..2, RR(3) = SP
RRName(p) == <<"bc", "de", "hl", "sp">>[p + 1]

\* HL_IX_IY(): entry 6 of m_current_register_table, which set_dd and set_fd
\* point at IX and IY
HL_IX_IY(M) == IF M.tbl = "dd" THEN "ix" ELSE IF M.tbl = "fd" THEN "iy" ELSE "hl"

\* RR(p) through m_current_register_table
RR(M, p) == IF p = 2 THEN HL_IX_IY(M) ELSE RRName(p)

\* static_cast<signed char>(d)
SignedChar(d) == IF d >= 128 THEN d - 256 ELSE d

\* x | (1 << k)
SetBit(x, k) == x + (1 - ((x \div (2 ^ k)) % 2)) * (2 ^ k)

\* R(z) |= 1 << y for the registers B (z = 0) and A (z = 7)
SetBitOfR(M, z, y) ==
    IF z = 0
    THEN SetReg(M, "bc", SetBit(M.r.bc \div 256, y) * 256 + (M.r.bc % 256))
    ELSE SetReg(M, "a", SetBit(M.r.a, y))

\* elapsed_cycles += n
Cycles(M, n) == IF Thrown(M) THEN M ELSE [M EXCEPT !.elapsed = @ + n]

S_FLAG_MASK  == 128
Z_FLAG_MASK  == 64
Y_FLAG_MASK  == 32
X_FLAG_MASK  == 8
PV_FLAG_MASK == 4
C_FLAG_MASK  == 1

\* bit k of the byte x
Bit(x, k) == (x \div (2 ^ k)) % 2

\* f & SZC_FLAG_MASK
AndSZC(f) == Bit(f, 7) * S_FLAG_MASK + Bit(f, 6) * Z_FLAG_MASK + Bit(f, 0) * C_FLAG_MASK

\* Hardware::output_byte: the user's handler; an exception of the handler
\* is caught and logged
output_byte(M, port, x) ==
    IF Thrown(M) THEN M
    ELSE IF M.outh = "finish" THEN [M EXCEPT !.fin = TRUE]
    ELSE M

\* Hardware::pop.  Result: [M, v]
pop(M) == [M |-> SetReg(M, "sp", U16(M.r.sp + 2)), v |-> read_word(M.mem, M.r.sp)]

\* Hardware::pop(elapsed_cycles)
pop_cycles(M) == LET q == pop(M) IN [M |-> Cycles(q.M, 6), v |-> q.v]

\* Hardware::push(x, elapsed_cycles)
push_cycles(M, x) == Cycles(push(M, x), 6)

\* The for (;;) of LDIR_LDDR with the locals bc, de, hl, n and the flags f.
\* L = [M, bc, de, hl, n, f]; the copy uses the plain read_byte and write_byte
RECURSIVE LdirLoop(_, _, _)
LdirLoop(L, d, unbounded) ==
    LET n   == MemRead(L.M.mem, L.hl)
        Mw  == write_byte(L.M, L.de, n)
        hl  == U16(L.hl + d)
        de  == U16(L.de + d)
        bc  == U16(L.bc - 1)
        L1  == [L EXCEPT !.M = Mw, !.hl = hl, !.de = de, !.bc = bc, !.n = n]
    IN IF Thrown(Mw) THEN [L EXCEPT !.M = Mw]
       ELSE IF bc = 0 THEN [L1 EXCEPT !.M = Cycles(Mw, 16)]
       ELSE LET M21 == Cycles(Mw, 21) IN
            IF unbounded \/ M21.elapsed < M21.max \/ M21.max = 0
            THEN LdirLoop([L1 EXCEPT !.M = M21], d, unbounded)
            ELSE [L1 EXCEPT !.M = SetPc(M21, M21.pc - 2), !.f = L.f + PV_FLAG_MASK]

\* r -= 2 before the loop and r += 2 in each of its iterations
BlockR(M, L) ==
    LET iterations == IF L.bc = M.r.bc THEN 65536 ELSE U16(M.r.bc + 65536 - L.bc)
    IN U8(M.r.r + 254 + 2 * iterations)

\* (a variant that finishes with Z set)
LDIR_LDDR_sets_z(M, opcode, unbounded) ==
    LET d  == IF opcode = OPCODE_LDIR THEN 1 ELSE -1
        L0 == [M |-> [M EXCEPT !.elapsed = @ - 8], bc |-> M.r.bc, de |-> M.r.de,
               hl |-> M.r.hl, n |-> 0,
               f |-> Bit(M.r.f, 7) * S_FLAG_MASK + Z_FLAG_MASK + Bit(M.r.f, 0) * C_FLAG_MASK]
        L  == LdirLoop(L0, d, unbounded)
        n  == U8(L.n + M.r.a)
        f  == L.f + Bit(n, 3) * X_FLAG_MASK + Bit(n, 1) * Y_FLAG_MASK
    IN IF Thrown(L.M) THEN L.M
       ELSE [L.M EXCEPT !.r.hl = L.hl, !.r.de = L.de, !.r.bc = L.bc, !.r.f = f,
                        !.r.r = BlockR(M, L)]

\* case LDIR_LDDR
LDIR_LDDR(M, opcode, unbounded) ==
    LET d  == IF opcode = OPCODE_LDIR THEN 1 ELSE -1
        L0 == [M |-> [M EXCEPT !.elapsed = @ - 8], bc |-> M.r.bc, de |-> M.r.de,
               hl |-> M.r.hl, n |-> 0, f |-> AndSZC(M.r.f)]
        L  == LdirLoop(L0, d, unbounded)
        n  == U8(L.n + M.r.a)
        f  == L.f + Bit(n, 3) * X_FLAG_MASK + Bit(n, 1) * Y_FLAG_MASK
    IN IF Thrown(L.M) THEN L.M
       ELSE [L.M EXCEPT !.r.hl = L.hl, !.r.de = L.de, !.r.bc = L.bc, !.r.f = f,
                        !.r.r = BlockR(M, L)]

\* SZYX_FLAGS_TABLE[x]: S, Z, Y and X from the byte x
SZYX_FLAGS_TABLE(x) ==
    Bit(x, 7) * S_FLAG_MASK + (IF x = 0 THEN Z_FLAG_MASK ELSE 0)
        + Bit(x, 5) * Y_FLAG_MASK + Bit(x, 3) * X_FLAG_MASK

\* case LD_A_I_LD_A_R: A = m_i, or (r & 0x80) | (r & 0x7f) of the local r
LD_A_I_LD_A_R(M, opcode) ==
    LET a == IF opcode = OPCODE_LD_A_I THEN U8(M.r.m_i)
             ELSE Bit(M.r.r, 7) * 128 + (M.r.r % 128)
        f == SZYX_FLAGS_TABLE(a) + M.r.m_iff2 * PV_FLAG_MASK + Bit(M.r.f, 0) * C_FLAG_MASK
    IN Cycles([M EXCEPT !.r.a = a, !.r.f = f], 1)

\* case LD_I_A_LD_R_A: m_i = A, or r = A & 0x7f
\* (history: r_written is bit 7 of the A that LD R,A was given)
LD_I_A_LD_R_A(M, opcode) ==
    Cycles(IF opcode = OPCODE_LD_I_A THEN [M EXCEPT !.r.m_i = M.r.a]
           ELSE [M EXCEPT !.r.r = M.r.a % 128, !.r.r_written = Bit(M.r.a, 7)], 1)

H_FLAG_MASK == 16

\* OVERFLOW_TABLE[i], i = 0..3
OVERFLOW_TABLE == <<0, PV_FLAG_MASK, PV_FLAG_MASK, 0>>

\* bit k of x ^ z
XorBit(x, z, k) == (Bit(x, k) + Bit(z, k)) % 2

\* op_inc that starts from no flags instead of reg_f() & C_FLAG_MASK
op_inc_without_carry(x, f) ==
    LET z == x + 1
    IN [x |-> U8(z),
        f |-> XorBit(x, z, 4) * H_FLAG_MASK
                + SZYX_FLAGS_TABLE(z % 256)
                + OVERFLOW_TABLE[XorBit(x, z, 7) + 2 * XorBit(x, z, 8) + 1]]

\* Processor::op_inc(x) with reg_f() = f: z = x + 1 as an int, c = x ^ z.
\* Result: [x, f]
op_inc(x, f) ==
    LET z == x + 1
    IN [x |-> U8(z),
        f |-> Bit(f, 0) * C_FLAG_MASK
                + XorBit(x, z, 4) * H_FLAG_MASK
                + SZYX_FLAGS_TABLE(z % 256)
                + OVERFLOW_TABLE[XorBit(x, z, 7) + 2 * XorBit(x, z, 8) + 1]]

\* The switch (instruction) of Processor::emulate for one decoded opcode.
\* M.pc is the local 'pc', already past the opcode byte.
Exec(M, instruction, opcode, unbounded) ==
    LET nn          == read_word(M.mem, M.pc)
        n           == MemRead(M.mem, M.pc)
    IN CASE instruction = "NOP" -> M
         [] instruction = "LD_RR_NN" ->
              Cycles(SetPc(SetReg(M, RR(M, P(opcode)), nn), M.pc + 2), 6)
         [] instruction = "LD_R_N" ->
              Cycles(SetPc(IF Y(opcode) = 1
                           THEN SetReg(M, "bc", (M.r.bc \div 256) * 256 + n)
                           ELSE SetReg(M, "a", n),
                           M.pc + 1), 3)
         [] instruction = "LD_INDIRECT_NN_HL" ->
              Cycles(write_word(Cycles(SetPc(M, M.pc + 2), 6), nn, M.r[HL_IX_IY(M)]), 6)
         [] instruction = "LD_INDIRECT_NN_A" ->
              Cycles(write_byte(Cycles(SetPc(M, M.pc + 2), 6), nn, M.r.a), 3)
         [] instruction = "PUSH_SS" ->
              Cycles(push_cycles(M, M.r[RR(M, P(opcode))]), 1)
         [] instruction = "POP_SS" ->
              LET q == pop_cycles(M)
              IN IF P(opcode) = 3
                 THEN SetReg(SetReg(q.M, "a", q.v \div 256), "f", q.v % 256)
                 ELSE SetReg(q.M, RR(M, P(opcode)), q.v)
         [] instruction = "HALT" ->
              [M EXCEPT !.halted = TRUE,
                        !.elapsed = IF M.elapsed < M.max THEN M.max ELSE M.elapsed]
         [] instruction = "DI" ->
              [M EXCEPT !.r.m_iff1 = 0, !.r.m_iff2 = 0, !.max = @ + 4]
         [] instruction = "EI" ->
              [M EXCEPT !.r.m_iff1 = 1, !.r.m_iff2 = 1, !.max = @ + 4]
         [] instruction = "JP_NN" -> Cycles(SetPc(M, nn), 6)
         [] instruction = "CALL_NN" ->
              Cycles(SetPc(push_cycles(Cycles(SetPc(M, M.pc + 2), 6), U16(M.pc + 2)), nn), 1)
         [] instruction = "RET" ->
              LET q == pop_cycles(M) IN SetPc(q.M, q.v)
         [] instruction = "RST_P" ->
              Cycles(SetPc(push_cycles(M, M.pc), RST_TABLE[Y(opcode) + 1]), 1)
         [] instruction = "OUT_N_A" ->
              Cycles(output_byte(Cycles(SetPc(M, M.pc + 1), 3), n, M.r.a), 4)
         [] instruction = "INC_R" ->
              LET q == op_inc(M.r.a, M.r.f)
              IN SetReg(SetReg(M, "a", q.x), "f", q.f)
         [] instruction = "LDIR_LDDR" -> LDIR_LDDR(M, opcode, unbounded)
         [] instruction = "SET_B_R" -> SetBitOfR(M, Z(opcode), Y(opcode))
         [] instruction = "LD_A_I_LD_A_R" -> LD_A_I_LD_A_R(M, opcode)
         [] instruction = "LD_I_A_LD_R_A" -> LD_I_A_LD_R_A(M, opcode)
         [] instruction = "IM_N" ->
              [M EXCEPT !.r.m_im = IF Y(opcode) % 4 <= 1 THEN "IM0"
                                   ELSE IF Y(opcode) % 2 = 0 THEN "IM1"
                                   ELSE "IM2"]
         [] instruction = "SET_B_INDIRECT_HL" ->
              IF M.tbl = "default"
              THEN Cycles(write_byte(Cycles(M, 3), M.r.hl,
                                     SetBit(MemRead(M.mem, M.r.hl), Y(opcode))), 4)
              ELSE LET d == U16(SignedChar(n) + M.r[HL_IX_IY(M)])
                       x == SetBit(MemRead(M.mem, d), Y(opcode))
                       W == Cycles(write_byte(Cycles(M, 3), d, x), 8)
                   IN SetPc(IF Z(opcode) # 6 THEN SetBitOfR(W, Z(opcode), Y(opcode)) ELSE W,
                            M.pc + 2)
         [] OTHER -> M

-----------------------------------------------------------------------------
(* Debug actions (src/core/debugaction.cpp) and Processor::m_debug_actions. *)
(* An action is [type, m_address, m_remaining]; the model adds the history  *)
(* fields id (order of insertion), initial, hits and last.                  *)

\* DebugAction::create(type, address, location, count): PassPoint takes the
\* count as a uint16_t
create(type, address, count_value, id) ==
    [type |-> type, m_address |-> address,
     m_remaining |-> IF type = "PASSPOINT" THEN U16(count_value) ELSE 0,
     id |-> id, initial |-> count_value, hits |-> 0, last |-> "none"]

\* history: the action after an evaluate() at its own address
Hit(a, ret) == [a EXCEPT !.hits = @ + 1, !.last = IF ret THEN "true" ELSE "false"]

\* Breakpoint::evaluate.  Result: [a, ret]
Breakpoint_evaluate(a, address) ==
    IF a.m_address = address THEN [a |-> Hit(a, FALSE), ret |-> FALSE]
    ELSE [a |-> a, ret |-> TRUE]

\* Watchpoint::evaluate
Watchpoint_evaluate(a, address) ==
    IF a.m_address = address THEN [a |-> Hit(a, TRUE), ret |-> TRUE]
    ELSE [a |-> a, ret |-> TRUE]

\* (a variant that tests the count before it decrements it)
PassPoint_evaluate_postdecrement(a, address) ==
    IF a.m_address = address
    THEN IF a.m_remaining = 0
         THEN [a |-> Hit(a, FALSE), ret |-> FALSE]
         ELSE [a |-> Hit([a EXCEPT !.m_remaining = U16(a.m_remaining - 1)], TRUE),
               ret |-> TRUE]
    ELSE [a |-> a, ret |-> TRUE]

\* PassPoint::evaluate: (m_remaining == 0) || (--m_remaining == 0)
PassPoint_evaluate(a, address) ==
    IF a.m_address = address
    THEN IF a.m_remaining = 0
         THEN [a |-> Hit(a, FALSE), ret |-> FALSE]
         ELSE LET dec == [a EXCEPT !.m_remaining = U16(a.m_remaining - 1)]
              IN IF dec.m_remaining = 0 THEN [a |-> Hit(dec, FALSE), ret |-> FALSE]
                 ELSE [a |-> Hit(dec, TRUE), ret |-> TRUE]
    ELSE [a |-> a, ret |-> TRUE]

\* a.second->evaluate(pc)
evaluate(a, address) ==
    IF a.type = "BREAKPOINT" THEN Breakpoint_evaluate(a, address)
    ELSE IF a.type = "WATCHPOINT" THEN Watchpoint_evaluate(a, address)
    ELSE PassPoint_evaluate(a, address)

\* std::any_of over equal_range(pc) of "evaluate(pc) == false": the actions
\* at pc in order, up to the first that returns false.  Result: [actions, found]
RECURSIVE AnyEvaluatesFalse(_, _, _)
AnyEvaluatesFalse(actions, k, address) ==
    IF k > Len(actions) THEN [actions |-> actions, found |-> FALSE]
    ELSE IF actions[k].m_address # address THEN AnyEvaluatesFalse(actions, k + 1, address)
    ELSE LET e == evaluate(actions[k], address)
             upd == [actions EXCEPT ![k] = e.a]
         IN IF ~e.ret THEN [actions |-> upd, found |-> TRUE]
            ELSE AnyEvaluatesFalse(upd, k + 1, address)

\* (a variant that puts the new action at the end)
add_action_at_end(actions, a) == Append(actions, a)

\* Processor::add_action: multimap::insert puts the action after the
\* actions whose address is not above its own
add_action(actions, a) ==
    LET pos == Cardinality({k \in 1..Len(actions) : actions[k].m_address <= a.m_address})
    IN SubSeq(actions, 1, pos) \o <<a>> \o SubSeq(actions, pos + 1, Len(actions))

\* (a variant that counts the index from zero)
remove_action_from_zero(actions, index) ==
    IF index >= Len(actions) THEN [actions |-> actions, ret |-> FALSE]
    ELSE [actions |-> SubSeq(actions, 1, index)
                        \o SubSeq(actions, index + 2, Len(actions)),
          ret |-> TRUE]

\* Processor::remove_action(index).  Result: [actions, ret]
remove_action(actions, index) ==
    IF index = 0 \/ index > Len(actions) THEN [actions |-> actions, ret |-> FALSE]
    ELSE [actions |-> SubSeq(actions, 1, index - 1)
                        \o SubSeq(actions, index + 1, Len(actions)),
          ret |-> TRUE]

-----------------------------------------------------------------------------
(* Processor::emulate(opcode, unbounded, elapsed_cycles, max_cycles) *)

\* (a variant without the test for the sentinel address)
StopCheck_running_only(effective_pc, running) == ~running

\* the test at emulate_next_instruction that ends the emulation
StopCheck(effective_pc, running) == effective_pc = 8 \/ ~running

\* stop_emulation: m_pc = m_effective_pc = pc & 0xffff
StopPc(pc_local) == pc_local % 65536

\* history: what a pass of the loop starts from
PassHist(M0, unbounded) ==
    [kind |-> "step", unbounded |-> unbounded, at |-> M0.pc,
     opcode |-> MemRead(M0.mem, M0.pc),
     stopped |-> FALSE, ret |-> "none", executed |-> FALSE, svcSame |-> TRUE,
     fin0 |-> M0.fin, chk0 |-> Chk(M0), sp0 |-> M0.r.sp,
     top0 |-> read_word(M0.mem, M0.r.sp), c0 |-> reg_c(M0), bc0 |-> M0.r.bc,
     term0 |-> M0.term, bios0 |-> M0.bios, wlog |-> <<>>, age |-> 0,
     r0 |-> M0.r, mem0 |-> M0.mem, actions0 |-> M0.actions, elapsed0 |-> M0.elapsed,
     evaluated |-> FALSE, broke |-> FALSE, prefixes |-> 0, returned |-> FALSE,
     alone |-> [k |-> 0], free |-> [on |-> FALSE]]

\* stop_emulation: the call returns
Stopped(M) ==
    [M EXCEPT !.stop = TRUE, !.r.m_pc = StopPc(M.pc), !.eff = StopPc(M.pc),
              !.r.m_r = Bit(M.r.m_r, 7) * 128 + (M.r.r % 128)]

\* (a variant in which the stop leaves pc behind the opcode at the address)
DebugChecked_past_address(Mx, h2) ==
    LET e == AnyEvaluatesFalse(Mx.actions, 1, Mx.pc)
        Me == [Mx EXCEPT !.actions = e.actions]
    IN IF e.found
       THEN [Stopped([Me EXCEPT !.fin = TRUE, !.pc = U16(Me.pc + 1)]) EXCEPT
                !.h = [h2 EXCEPT !.evaluated = TRUE, !.broke = TRUE]]
       ELSE [Me EXCEPT !.h = [h2 EXCEPT !.evaluated = TRUE]]

\* the debug actions for the address the loop goes on with
DebugChecked(Mx, h2) ==
    LET e == AnyEvaluatesFalse(Mx.actions, 1, Mx.pc)
        Me == [Mx EXCEPT !.actions = e.actions]
    IN IF e.found
       THEN [Stopped([Me EXCEPT !.fin = TRUE]) EXCEPT
                !.h = [h2 EXCEPT !.evaluated = TRUE, !.broke = TRUE]]
       ELSE [Me EXCEPT !.h = [h2 EXCEPT !.evaluated = TRUE]]

\* the bottom of the loop after the instruction: HALT has gone to
\* stop_emulation; a bounded call that has used up its cycles stops; then
\* the debug actions are evaluated
PassExecuted(Mx, h1, unbounded) ==
    IF Thrown(Mx) THEN [Mx EXCEPT !.h = [h1 EXCEPT !.wlog = Mx.wlog]]
    ELSE IF Mx.halted \/ (~unbounded /\ Mx.elapsed >= Mx.max)
    THEN [Stopped(Mx) EXCEPT !.h = [h1 EXCEPT !.executed = TRUE, !.wlog = Mx.wlog]]
    ELSE DebugChecked(Mx, [h1 EXCEPT !.executed = TRUE, !.wlog = Mx.wlog])

RECURSIVE PassFetched(_, _, _, _, _, _)

\* (a variant in which a prefix byte does not count as an opcode fetch)
PassPrefixed_uncounted(M4, h1, instruction, env, unbounded) ==
    LET indexed == instruction = "CB_PREFIX" /\ M4.tbl # "default"
        op2 == MemRead(M4.mem, IF indexed THEN U16(M4.pc + 1) ELSE M4.pc)
        M5  == [M4 EXCEPT !.pc = IF indexed THEN M4.pc ELSE U16(M4.pc + 1),
                          !.r.r = U8(@ + 255),
                          !.tbl = IF instruction = "DD_PREFIX" THEN "dd"
                                  ELSE IF instruction = "FD_PREFIX" THEN "fd"
                                  ELSE IF instruction = "CB_PREFIX" THEN M4.tbl
                                  ELSE "default"]
    IN PassFetched(M5, [h1 EXCEPT !.prefixes = @ + 1],
                   IF instruction = "ED_PREFIX" THEN DecodeED(op2)
                   ELSE IF instruction = "CB_PREFIX" THEN DecodeCB(op2)
                   ELSE Decode(op2),
                   op2, env, unbounded)

\* a prefix: the table is switched, the next opcode is read and the loop
\* goes back to emulate_next_opcode (DD, FD) or emulate_next_instruction
\* (ED, CB).  A CB after DD or FD reads its opcode behind the displacement
\* and leaves pc at the displacement.
PassPrefixed(M4, h1, instruction, env, unbounded) ==
    LET indexed == instruction = "CB_PREFIX" /\ M4.tbl # "default"
        op2 == MemRead(M4.mem, IF indexed THEN U16(M4.pc + 1) ELSE M4.pc)
        M5  == [M4 EXCEPT !.pc = IF indexed THEN M4.pc ELSE U16(M4.pc + 1),
                          !.r.r = IF indexed THEN U8(@ - 1) ELSE @,
                          !.tbl = IF instruction = "DD_PREFIX" THEN "dd"
                                  ELSE IF instruction = "FD_PREFIX" THEN "fd"
                                  ELSE IF instruction = "CB_PREFIX" THEN M4.tbl
                                  ELSE "default"]
    IN PassFetched(M5, [h1 EXCEPT !.prefixes = @ + 1],
                   IF instruction = "ED_PREFIX" THEN DecodeED(op2)
                   ELSE IF instruction = "CB_PREFIX" THEN DecodeCB(op2)
                   ELSE Decode(op2),
                   op2, env, unbounded)

\* after check_and_handle_bdos_and_bios: the switch (instruction)
PassHandled(c, Mf, h0, instruction, opcode, env, unbounded) ==
    LET h1 == [h0 EXCEPT !.ret = c.ret, !.svcSame = (c.M = Mf)]
        M4 == [c.M EXCEPT !.wlog = <<>>, !.elapsed = @ + 4, !.r.r = U8(@ + 1)]
    IN IF Thrown(c.M) THEN [c.M EXCEPT !.h = h1]
       ELSE IF instruction = "OUTSIDE" THEN [c.M EXCEPT !.outside = TRUE, !.h = h1]
       ELSE IF instruction \in {"DD_PREFIX", "FD_PREFIX", "ED_PREFIX", "CB_PREFIX"}
       THEN PassPrefixed(M4, h1, instruction, env, unbounded)
       ELSE PassExecuted(Exec(M4, instruction, opcode, unbounded), h1, unbounded)

\* emulate_next_instruction: the termination test, then the BIOS hook
PassFetched(Mf, h0, instruction, opcode, env, unbounded) ==
    IF StopCheck(Mf.eff, ~Mf.fin)
    THEN [Stopped([Mf EXCEPT !.fin = TRUE]) EXCEPT !.h = [h0 EXCEPT !.stopped = TRUE]]
    ELSE PassHandled(check_and_handle_bdos_and_bios(Mf, Mf.eff, env),
                     Mf, h0, instruction, opcode, env, unbounded)

\* One pass of the for (;;) loop of Processor::emulate(opcode, unbounded, ...),
\* from the fetch of the opcode at M0.pc to the bottom of the loop (the first
\* pass is entered at start_emulation with the opcode that emulate() or
\* emulate_instruction() fetched, which is the same fetch).
\* Result: M with M.stop = TRUE when the call returns, and with M.h the
\* record of what the pass did.
EmulatePass(M0, env, unbounded) ==
    PassFetched([M0 EXCEPT !.pc = U16(M0.pc + 1), !.eff = M0.pc, !.wlog = <<>>,
                           !.tbl = "default"],
                PassHist(M0, unbounded), Decode(MemRead(M0.mem, M0.pc)),
                MemRead(M0.mem, M0.pc), env, unbounded)

-----------------------------------------------------------------------------
(* Inputs of the system specification: what the builder is given           *)
(* (src/builder/builder.cpp) and the guest programs loaded at 0x0100       *)

BdosFileBase == 56320   \* 0xDC00
Wboot        == 61955   \* 0xF203
Fbase        == 58374   \* 0xE406
UserBase     == 256     \* 0x0100
InitialSp    == 63488   \* 0xF800

JumpBase  == Wboot - 3
StubsBase == JumpBase + 256
StubsTop  == StubsBase + table_size - 1

\* The BDOS/BIOS images handed to load_binary.  Each has a RET at FBASE.
\* "cpm3" carries a 33-entry BIOS jump table at WBOOT - 3, "cpm22" the
\* 17-entry table of CP/M 2.2 followed by BIOS code (DI, 0xF3), "jp0only" a
\* single JP followed by other code, "none" carries no table.
ImageEntries(kind) ==
    IF kind = "cpm3" THEN table_size
    ELSE IF kind = "cpm22" THEN 17
    ELSE IF kind = "jp0only" THEN 1
    ELSE 0

ImageByte(kind, a) ==
    IF a = Fbase THEN 201
    ELSE IF a >= JumpBase /\ a < JumpBase + 3 * table_size
    THEN LET k == a - JumpBase
             i == k \div 3
             target == JumpBase + 128 + 3 * i
         IN IF i < ImageEntries(kind)
            THEN (IF k % 3 = 0 THEN 195 ELSE IF k % 3 = 1 THEN Lo(target) ELSE Hi(target))
            ELSE IF kind \in {"cpm22", "jp0only"} THEN 243 ELSE 0
    ELSE 0

BdosImage(kind) ==
    [i \in 1..(JumpBase + 3 * table_size - BdosFileBase) |-> ImageByte(kind, BdosFileBase + i - 1)]

ImageKinds == {"cpm3", "cpm22", "jp0only", "none"}

\* the runner started with the name of the binary only
NoArguments == <<>>

\* Guest programs
ProgCallBios(i) ==
    <<1, 65, 0, 205, Lo(JumpBase + 3 * i), Hi(JumpBase + 3 * i), 201>>  \* LD BC,0041; CALL v; RET
ProgStoreWord(nn) == <<33, 52, 18, 34, Lo(nn), Hi(nn), 201>>   \* LD HL,1234; LD (nn),HL; RET
ProgStoreByte(nn) == <<62, 85, 50, Lo(nn), Hi(nn), 201>>       \* LD A,55; LD (nn),A; RET
ProgPush(nn)      == <<33, 52, 18, 49, Lo(nn), Hi(nn), 229, 118>>  \* LD HL; LD SP,nn; PUSH HL; HALT
ProgJump(nn)      == <<195, Lo(nn), Hi(nn)>>                   \* JP nn
ProgCall(nn)      == <<205, Lo(nn), Hi(nn), 201>>              \* CALL nn; RET
\* LD BC,track; CALL SETTRK; CALL READ; HALT
ProgReadSector(track) ==
    <<1, Lo(track), Hi(track), 205, Lo(JumpBase + 30), Hi(JumpBase + 30),
      205, Lo(JumpBase + 39), Hi(JumpBase + 39), 118>>

\* CALL of the BIOS function fn at its stub
CallStub(fn) == <<205, Lo(StubsBase + fn), Hi(StubsBase + fn)>>

\* LD BC,0100; SETTRK; SETDMA; WRITE; LD BC,2000; SETDMA; READ; HALT
ProgWriteThenRead ==
    <<1, 0, 1>> \o CallStub(10) \o CallStub(12) \o CallStub(14)
       \o <<1, 0, 32>> \o CallStub(12) \o CallStub(13) \o <<118>>

\* LD BC,0002; SETTRK; SETSEC; HOME; READ; HALT
ProgHomeThenRead ==
    <<1, 2, 0>> \o CallStub(10) \o CallStub(11) \o CallStub(8) \o CallStub(13) \o <<118>>

\* LD BC,nn; SETDMA; READ; HALT
ProgReadInto(nn) ==
    <<1, Lo(nn), Hi(nn)>> \o CallStub(12) \o CallStub(13) \o <<118>>

\* DMA addresses the guest reads a sector into
DmaTargets == {0, JumpBase}

StoreTargets ==
    {0, 2, 4, 5, 7, 8, 65535, JumpBase - 1, JumpBase, StubsTop, StubsTop + 1, 8192}

PushTargets == {6, JumpBase + 1, 12288}

UserPrograms ==
    { <<201>>,                      \* RET
      <<207>>,                      \* RST 08
      <<118>>,                      \* HALT
      <<62, 65, 211, 1, 0, 201>>,   \* LD A,41; OUT (1),A; NOP; RET
      <<14, 2, 205, 5, 0, 201>> }   \* LD C,2; CALL 0005; RET
    \cup {ProgJump(8), ProgJump(StubsTop + 1), ProgCall(StubsBase - 1)}
    \cup {ProgCallBios(i) : i \in 0..(table_size - 1)}
    \cup {ProgStoreWord(nn) : nn \in StoreTargets}
    \cup {ProgStoreByte(nn) : nn \in StoreTargets}
    \cup {ProgPush(nn) : nn \in PushTargets}
    \cup {ProgReadSector(2), ProgWriteThenRead, ProgHomeThenRead}
    \cup {ProgReadInto(nn) : nn \in DmaTargets}

\* what the terminal answers to CONST and CONIN
Envs == [ready : BOOLEAN, ch : {65}]

OutputHandlers == {"finish"}

\* the host directory the system's disk is built over
SysHostDir == << [name |-> RawA, data |-> HostFile(128, 65)] >>

-----------------------------------------------------------------------------
(* The system specification: the builder's call order, then run() and      *)
(* step() calls of the runner or the debugger                              *)

\* the variables as the machine state the operators work on
MState ==
    [mem |-> mem, r |-> cpu, pc |-> pc, eff |-> m_effective_pc, fin |-> m_finished,
     enable |-> m_enable_memory_checks, check |-> m_check_memory_accesses,
     bios |-> bios, fbase |-> m_fbase, term |-> term, fault |-> "none",
     entries |-> m_entries, cache |-> m_sector_cache, next |-> m_next_block,
     fs |-> hostfs, listing |-> DirListing(SysHostDir), outh |-> m_output_handler,
     actions |-> m_debug_actions, elapsed |-> elapsed_cycles, max |-> max_cycles,
     tbl |-> "default", symbols |-> m_symbols,
     wlog |-> <<>>, halted |-> FALSE, stop |-> FALSE, outside |-> FALSE, h |-> NoHist]

\* the machine state back into the variables; an exception that escapes the
\* call ends the session
Commit(M, ph, h) ==
    /\ mem' = M.mem
    /\ cpu' = M.r
    /\ pc' = M.pc
    /\ m_effective_pc' = M.eff
    /\ m_finished' = M.fin
    /\ m_check_memory_accesses' = M.check
    /\ bios' = M.bios
    /\ m_fbase' = M.fbase
    /\ term' = M.term
    /\ fault' = M.fault
    /\ m_entries' = M.entries
    /\ m_sector_cache' = M.cache
    /\ m_next_block' = M.next
    /\ hostfs' = M.fs
    /\ m_debug_actions' = M.actions
    /\ elapsed_cycles' = M.elapsed
    /\ max_cycles' = M.max
    /\ m_symbols' = M.symbols
    /\ phase' = IF Thrown(M) THEN "aborted" ELSE ph
    /\ hist' = h
    /\ UNCHANGED <<m_enable_memory_checks, diskPhase, readLoc, readBuf, written,
                   dirHist, diskOps>>

\* Hardware::Hardware(terminal, memcheck, ...) inside System::System
SysInit ==
    /\ mem = <<>>
    /\ cpu = ResetCpu
    /\ pc = 0
    /\ m_effective_pc = 0
    /\ m_finished = FALSE
    /\ m_check_memory_accesses = FALSE
    /\ m_enable_memory_checks \in BOOLEAN
    /\ bios = NoBios
    /\ m_fbase = 0
    /\ phase = "constructed"
    /\ fault = "none"
    /\ term = <<>>
    /\ m_output_handler = "none"
    /\ runs = 0
    /\ steps = 0
    /\ passes = 0
    /\ m_debug_actions = <<>>
    /\ elapsed_cycles = 0
    /\ max_cycles = 0
    /\ m_symbols = add(<<>>, ZCPM, 65520, <<"T", "B", "D", "!">>)
    /\ hist = NoHist
    /\ m_entries = <<>>
    /\ m_sector_cache = <<>>
    /\ m_next_block = InitialNextBlock
    /\ hostfs = [n \in {RawA} |-> SysHostDir[1].data]
    /\ diskPhase = "none"
    /\ readLoc = NoLoc
    /\ readBuf = <<>>
    /\ written = <<>>
    /\ dirHist = <<>>
    /\ diskOps = 0

\* boost::split(fields, s, is_any_of(c)): the pieces between the delimiters,
\* empty pieces kept
Split(s, c) ==
    LET pos == {i \in 1..Len(s) : s[i] = c}
        n   == Cardinality(pos)
        cut(k) == IF k = 0 THEN 0
                  ELSE IF k = n + 1 THEN Len(s) + 1
                  ELSE CHOOSE q \in pos : Cardinality({x \in pos : x <= q}) = k
    IN [k \in 1..(n + 1) |-> SubSeq(s, cut(k - 1) + 1, cut(k) - 1)]

\* the first n characters of s, padded with spaces to n
PadTo(s, n) == [i \in 1..n |-> IF i <= Len(s) THEN s[i] ELSE 32]

\* the anonymous-namespace parse_filename(): [dr, name, extn].  fields[0][0]
\* of an empty field is the string's terminating zero.
parse_filename(s) ==
    LET fields   == Split(to_upper_copy(s), 58)
        first    == IF fields[1] = <<>> THEN 0 ELSE fields[1][1]
        filename == IF Len(fields) > 1 THEN fields[2] ELSE fields[1]
        parts    == Split(filename, 46)
    IN [dr   |-> IF Len(fields) > 1 THEN (first - 65 + 1) % 256 ELSE 0,
        name |-> PadTo(parts[1], 8),
        extn |-> IF Len(parts) > 1 THEN PadTo(parts[2], 3) ELSE PadTo(<<>>, 3)]

\* Fcb::Fcb(): the 36 bytes of a default FCB
FcbDefault ==
    <<0, 32, 32, 32, 32, 32, 32, 32, 32, 32, 32, 32, 0, 0, 0, 2,
      0, 32, 32, 32, 32, 32, 32, 32, 32, 32, 32, 32, 0, 0, 0, 0,
      0, 251, 181, 251>>

\* Fcb::set_first: m_dr, m_f and m_t (bytes 0, 1..8, 9..11)
set_first(bytes, s) ==
    LET q == parse_filename(s)
    IN [i \in 1..Len(bytes) |->
          IF i = 1 THEN q.dr
          ELSE IF i <= 9 THEN q.name[i - 1]
          ELSE IF i <= 12 THEN q.extn[i - 9]
          ELSE bytes[i]]

\* Fcb::set_second: name at m_bytes[0x11..], type at m_bytes[0x19..]
set_second(bytes, s) ==
    LET q == parse_filename(s)
    IN [i \in 1..Len(bytes) |->
          IF i >= 18 /\ i <= 25 THEN q.name[i - 17]
          ELSE IF i >= 26 /\ i <= 28 THEN q.extn[i - 25]
          ELSE bytes[i]]

\* write_byte(base, bytes[1]), write_byte(base + 1, bytes[2]), ... up to the
\* first one that throws
WriteBytes(M, base, bytes) ==
    IF Thrown(M) THEN M
    ELSE IF base + Len(bytes) > 65536
         THEN WriteRun(M, [k \in 1..Len(bytes) |-> ByteWrite(base + k - 1, bytes[k])])
    ELSE LET bad == {k \in 1..Len(bytes) :
                       check_watched_memory_byte(Chk(M), M.bios, base + k - 1) # "none"}
             n   == IF bad = {} THEN Len(bytes)
                    ELSE (CHOOSE k \in bad : \A j \in bad : k <= j) - 1
         IN [M EXCEPT !.mem = copy_to_ram(M.mem, [k \in 1..n |-> U8(bytes[k])], base),
                      !.fault = IF bad = {} THEN "none"
                                ELSE check_watched_memory_byte(Chk(M), M.bios, base + n)]

\* the 'tail' of load_fcb: for each argument a space and the argument in
\* upper case
RECURSIVE CommandTail(_)
CommandTail(args) ==
    IF args = <<>> THEN <<>>
    ELSE <<32>> \o to_upper_copy(Head(args)) \o CommandTail(Tail(args))

fcb_base == 92
command_tail_base == 128

\* System::load_fcb(args): the FCB to 0x005C, then the command tail to 0x0080
\* by write_byte (a uint8_t value at a uint16_t address)
load_fcb(M, args) ==
    LET fcb  == IF Len(args) = 1 THEN set_first(FcbDefault, args[1])
                ELSE IF Len(args) > 1
                     THEN set_second(set_first(FcbDefault, args[1]), args[2])
                ELSE FcbDefault
        tail == CommandTail(args)
    IN WriteBytes([M EXCEPT !.mem = copy_to_ram(M.mem, fcb, fcb_base)],
                  command_tail_base, <<Len(tail)>> \o tail \o <<0>>)

\* System::load_binary(base, filename): the whole file into RAM at base
load_binary(M, base, image) == [M EXCEPT !.mem = copy_to_ram(M.mem, image, base)]

\* Hardware::set_fbase_and_wboot
set_fbase_and_wboot(M, fbase, wboot) ==
    BiosConstruct(WriteRun([M EXCEPT !.fbase = fbase],
                           << ByteWrite(0, 195),
                              ByteWrite(1, wboot % 256),
                              ByteWrite(2, wboot \div 256),
                              ByteWrite(5, 195),
                              ByteWrite(6, fbase % 256),
                              ByteWrite(7, fbase \div 256) >>))

\* Hardware::call_bios_boot
call_bios_boot(M) == fn_wboot(fn_boot(M))

\* System::setup_bios
setup_bios(M, fbase, wboot) == call_bios_boot(set_fbase_and_wboot(M, fbase, wboot))

\* Processor::reset_state
reset_state(M) ==
    [M EXCEPT !.r.a = 255, !.r.f = 255, !.r.sp = 65535, !.r.m_pc = 0, !.eff = 0,
              !.r.m_iff1 = 0, !.r.m_iff2 = 0, !.r.m_i = 0, !.r.m_im = "IM0"]

\* System::reset
reset(M) ==
    check_memory_accesses(
        write_word(
            write_word(
                write_word([reset_state(M) EXCEPT !.r.m_pc = UserBase, !.r.sp = InitialSp],
                           InitialSp + 0, 0),
                InitialSp + 2, 0),
            InitialSp + 4, 0),
        TRUE)

\* Processor::emulate() and emulate_instruction() up to the call of
\* emulate(opcode, ...): m_effective_pc = m_pc, the opcode is read at m_pc++.
\* M.pc stays at the opcode, which EmulatePass reads again.
emulate_entry(M) ==
    [M EXCEPT !.eff = M.r.m_pc, !.pc = M.r.m_pc, !.r.m_pc = U16(M.r.m_pc + 1),
              !.elapsed = 0, !.max = 0, !.r.r = M.r.m_r % 128]

\* Hardware::call_bdos up to the call of Processor::emulate()
call_bdos_entry(M, op) ==
    [M EXCEPT !.r.bc = (M.r.bc \div 256) * 256 + op, !.r.m_pc = 5]

LoadBdos(kind) ==
    /\ phase = "constructed"
    /\ Commit(load_binary(MState, BdosFileBase, BdosImage(kind)), "bdos_loaded",
              [kind |-> "load_bdos"])
    /\ UNCHANGED <<m_output_handler, runs, steps, passes>>

SetupBios ==
    /\ phase = "bdos_loaded"
    /\ Commit(setup_bios(MState, Fbase, Wboot), "bios_ready",
              [kind |-> "setup_bios", mem0 |-> mem])
    /\ UNCHANGED <<m_output_handler, runs, steps, passes>>

LoadUser(prog) ==
    /\ phase = "bios_ready"
    /\ Commit(load_binary(MState, UserBase, prog), "binary_loaded", [kind |-> "load_user"])
    /\ UNCHANGED <<m_output_handler, runs, steps, passes>>

\* System::load_fcb(arguments), which the builder calls next
LoadFcb(args) ==
    /\ phase = "binary_loaded"
    /\ Commit(load_fcb(MState, args), "user_loaded",
              [kind |-> "load_fcb", args |-> args, mem0 |-> mem])
    /\ UNCHANGED <<m_output_handler, runs, steps, passes>>

Reset ==
    /\ phase \in {"user_loaded", "bdos_done"}
    /\ \E M \in {reset(MState)} :
         Commit([M EXCEPT !.pc = M.r.m_pc],
                IF phase = "user_loaded" THEN "reset1" ELSE "ready", [kind |-> "reset"])
    /\ UNCHANGED <<m_output_handler, runs, steps, passes>>

\* System::setup_bdos up to the first pass of the emulation loop:
\* check_memory_accesses(false), then Hardware::call_bdos(13)
SetupBdos ==
    /\ phase = "reset1"
    /\ Commit(emulate_entry(call_bdos_entry(check_memory_accesses(MState, FALSE), 13)),
              "bdos_init", [kind |-> "setup_bdos"])
    /\ UNCHANGED <<m_output_handler, runs, steps, passes>>

\* System::set_output_handler
SetOutputHandler(h) ==
    /\ phase = "ready"
    /\ m_output_handler = "none"
    /\ m_output_handler' = h
    /\ hist' = [kind |-> "set_output_handler"]
    /\ UNCHANGED <<diskVars, mem, cpu, pc, m_effective_pc, m_finished,
                   m_check_memory_accesses, m_enable_memory_checks, bios, m_fbase,
                   phase, fault, term, runs, steps, passes, m_debug_actions,
                   elapsed_cycles, max_cycles, m_symbols>>

\* The host: a file of the working directory is removed by another process
\* after the directory was scanned
HostFileVanishes(n) ==
    /\ phase = "ready"
    /\ m_output_handler = "none"
    /\ n \in DOMAIN hostfs
    /\ hostfs' = [x \in DOMAIN hostfs \ {n} |-> hostfs[x]]
    /\ hist' = [kind |-> "host"]
    /\ UNCHANGED <<m_entries, m_sector_cache, m_next_block, diskPhase, readLoc, readBuf,
                   written, dirHist, diskOps>>
    /\ UNCHANGED <<mem, cpu, pc, m_effective_pc, m_finished, m_check_memory_accesses,
                   m_enable_memory_checks, bios, m_fbase, phase, fault, term,
                   m_output_handler, runs, steps, passes, m_debug_actions,
                   elapsed_cycles, max_cycles, m_symbols>>

\* System::run up to the first pass of the emulation loop
Run ==
    /\ phase \in {"ready", "stopped"}
    /\ runs < MaxRuns
    /\ Commit(emulate_entry([MState EXCEPT !.fin = FALSE]), "running", [kind |-> "run"])
    /\ runs' = runs + 1
    /\ passes' = 0
    /\ UNCHANGED <<m_output_handler, steps>>

\* System::step(instruction_count) up to the first emulate_instruction()
Step(instruction_count) ==
    /\ phase \in {"ready", "stopped"}
    /\ runs < MaxRuns
    /\ Commit([MState EXCEPT !.fin = FALSE],
              IF instruction_count = 0 THEN "stopped" ELSE "stepping", [kind |-> "step_call"])
    /\ runs' = runs + 1
    /\ steps' = instruction_count
    /\ passes' = 0
    /\ UNCHANGED m_output_handler

\* history: the pass about to run, within run(), is a RET of the guest program on the
\* stack that reset() left (SP = 0xF800, a zero word on top) with the
\* page-zero JP and the WBOOT vector as setup_bios left them
InitialStackRet(M, in_run) ==
    /\ in_run
    /\ ~M.fin
    /\ M.bios.present
    /\ M.pc # 8
    /\ (M.pc < M.bios.m_stubs_base \/ M.pc > M.bios.m_stubs_top)
    /\ MemRead(M.mem, M.pc) = 201
    /\ M.r.sp = InitialSp
    /\ read_word(M.mem, InitialSp) = 0
    /\ MemRead(M.mem, 0) = 195
    /\ read_word(M.mem, 1) = M.bios.m_discovered_base + 3
    /\ MemRead(M.mem, M.bios.m_discovered_base + 3) = 195
    /\ read_word(M.mem, M.bios.m_discovered_base + 4) = M.bios.m_stubs_base + 1

\* history: passes made since such a RET, it included, counted up to 5
RetAge(M, in_run) ==
    IF InitialStackRet(M, in_run) THEN 1
    ELSE IF hist.kind = "step" /\ hist.age \in 1..4 THEN hist.age + 1
    ELSE 0

\* what follows a pass in the caller when the call returns:
\* System::setup_bdos switches the checks back on
AfterPass(M, ph) ==
    IF M.stop /\ ~Thrown(M) /\ ph = "bdos_init"
    THEN check_memory_accesses([M EXCEPT !.pc = M.r.m_pc], TRUE)
    ELSE IF M.stop \/ Thrown(M) \/ M.outside THEN [M EXCEPT !.pc = M.r.m_pc]
    ELSE M

\* the driver's position after a pass; System::step goes on to its next
\* emulate_instruction()
PhaseAfter(M, ph, remaining) ==
    IF M.outside THEN "outside"
    ELSE IF ~M.stop THEN ph
    ELSE IF ph = "bdos_init" THEN "bdos_done"
    ELSE IF ph = "stepping" /\ remaining > 1 THEN "stepping"
    ELSE "stopped"

\* the number of DD and FD bytes from address a on
RECURSIVE PrefixRun(_, _)
PrefixRun(memory, a) ==
    IF MemRead(memory, U16(a)) \in {221, 253} THEN 1 + PrefixRun(memory, a + 1) ELSE 0

\* history: what the same pass does when it starts behind the run of k DD
\* and FD bytes at M0.pc, on the opcode alone
Alone(M0, env, unbounded) ==
    LET k == PrefixRun(M0.mem, M0.pc)
        E == EmulatePass([M0 EXCEPT !.pc = U16(M0.pc + k)], env, unbounded)
    IN IF k = 0 THEN [k |-> 0]
       ELSE [k |-> k, r |-> E.r, mem |-> E.mem, pc |-> E.pc, elapsed |-> E.elapsed,
             fault |-> E.fault, stop |-> E.stop, executed |-> E.h.executed]

\* history: what the same pass does when no debug action is registered
Free(M0, env, unbounded) ==
    LET E == EmulatePass([M0 EXCEPT !.actions = <<>>], env, unbounded) IN
    IF M0.actions = <<>> THEN [on |-> FALSE]
    ELSE [on |-> TRUE, r |-> E.r, mem |-> E.mem, pc |-> E.pc, elapsed |-> E.elapsed]

\* One pass of the emulation loop
EmulateStep ==
    /\ phase \in {"bdos_init", "running", "stepping"}
    /\ passes < MaxPasses
    /\ \E env \in Envs :
         \E M0 \in {IF phase # "stepping" THEN MState ELSE emulate_entry(MState)} :
           \E M \in {EmulatePass(M0, env, phase # "stepping")} :
             Commit(AfterPass(M, phase), PhaseAfter(M, phase, steps),
                    [M.h EXCEPT !.age = RetAge(M0, phase = "running"),
                                !.returned = M.stop,
                                !.alone = Alone(M0, env, phase # "stepping"),
                                !.free = Free(M0, env, phase # "stepping")])
    /\ steps' = IF phase = "stepping" THEN steps - 1 ELSE steps
    /\ passes' = passes + 1
    /\ UNCHANGED <<m_output_handler, runs>>

Next ==
    \/ \E kind \in ImageKinds : LoadBdos(kind)
    \/ SetupBios
    \/ \E prog \in UserPrograms : LoadUser(prog)
    \/ LoadFcb(NoArguments)
    \/ Reset
    \/ SetupBdos
    \/ \E h \in OutputHandlers : SetOutputHandler(h)
    \/ \E n \in {RawA} : HostFileVanishes(n)
    \/ Run
    \/ \E n \in 0..MaxStepCount : Step(n)
    \/ EmulateStep

Spec == SysInit /\ [][Next]_vars

-----------------------------------------------------------------------------
(* The debugger specification: the same system, built over the CP/M 3      *)
(* image, with the debugger's commands for debug actions (src/debugger)    *)
(* and guest programs that loop, use prefixes, block moves and DI/EI       *)

DebugPrograms ==
    { <<0, 0, 195, 0, 1>>,                  \* NOP; NOP; JP 0100
      <<243, 0, 118>>,                      \* DI; NOP; HALT
      <<251, 0, 118>>,                      \* EI; NOP; HALT
      <<221, 33, 52, 18, 118>>,             \* LD IX,1234; HALT
      <<221, 253, 0, 118>>,                 \* DD FD NOP; HALT
      <<1, 1, 0, 17, 0, 32, 237, 176, 118>>,    \* LD BC,1; LD DE,2000; LDIR; HALT
      <<1, 0, 0, 197, 241, 1, 2, 0, 17, 0, 32, 33, 0, 1, 237, 176, 118>>,
                    \* LD BC,0; PUSH BC; POP AF; LD BC,2; LD DE,2000; LD HL,0100; LDIR; HALT
      <<1, 2, 0, 17, 1, 32, 33, 1, 1, 237, 184, 118>>,
                    \* LD BC,2; LD DE,2001; LD HL,0101; LDDR; HALT
      <<221, 1, 2, 0, 253, 221, 17, 0, 32, 221, 237, 176, 253, 118>>,
                    \* DD LD BC,2; FD DD LD DE,2000; DD LDIR; FD HALT
      <<253, 62, 7, 221, 50, 0, 32, 253, 197, 221, 195, 0, 1>>,
                    \* FD LD A,07; DD LD (2000),A; FD PUSH BC; DD JP 0100
      <<237, 86, 251, 118>>,                \* IM 1; EI; HALT
      <<62, 1, 237, 71, 237, 94, 251, 118>>,   \* LD A,01; LD I,A; IM 2; EI; HALT
      <<62, 128, 237, 79, 237, 95, 118>>,   \* LD A,80; LD R,A; LD A,R; HALT
      <<62, 5, 237, 79, 0, 237, 95, 118>>,  \* LD A,05; LD R,A; NOP; LD A,R; HALT
      <<33, 0, 32, 203, 198, 203, 192, 118>>,
                    \* LD HL,2000; SET 0,(HL); SET 0,B; HALT
      <<221, 33, 0, 32, 221, 203, 5, 198, 221, 203, 5, 192, 118>> }
                    \* LD IX,2000; SET 0,(IX+5); DD CB 05 C0; HALT

\* the debugger's commands: type, address, count
DebugCommands ==
    { [type |-> "BREAKPOINT", address |-> UserBase,     count |-> 0],
      [type |-> "BREAKPOINT", address |-> UserBase + 1, count |-> 0],
      [type |-> "WATCHPOINT", address |-> UserBase + 1, count |-> 0],
      [type |-> "PASSPOINT",  address |-> UserBase,     count |-> 1],
      [type |-> "PASSPOINT",  address |-> UserBase,     count |-> 2] }

\* history: the actions present, numbered 1..n in the order of their insertion
Renumber(actions) ==
    [k \in 1..Len(actions) |->
        [actions[k] EXCEPT
            !.id = Cardinality({j \in 1..Len(actions) : actions[j].id <= actions[k].id})]]

NextId(actions) == Len(actions) + 1

\* the debugger adds an action: Processor::add_action(DebugAction::create(...))
AddAction(c) ==
    /\ phase = "ready"
    /\ Len(m_debug_actions) < MaxActions
    /\ m_debug_actions' =
          add_action(m_debug_actions,
                     create(c.type, c.address, c.count, NextId(m_debug_actions)))
    /\ hist' = [kind |-> "add_action", before |-> m_debug_actions]
    /\ UNCHANGED <<diskVars, mem, cpu, pc, m_effective_pc, m_finished,
                   m_check_memory_accesses, m_enable_memory_checks, bios, m_fbase,
                   phase, fault, term, m_output_handler, runs, steps, passes,
                   elapsed_cycles, max_cycles, m_symbols>>

\* the debugger removes an action: Processor::remove_action(index)
RemoveAction(index) ==
    /\ phase = "ready"
    /\ hist.kind # "remove_action"
    /\ LET r == remove_action(m_debug_actions, index)
       IN /\ m_debug_actions' = Renumber(r.actions)
          /\ hist' = [kind |-> "remove_action", index |-> index,
                      before |-> m_debug_actions, ret |-> r.ret]
    /\ UNCHANGED <<diskVars, mem, cpu, pc, m_effective_pc, m_finished,
                   m_check_memory_accesses, m_enable_memory_checks, bios, m_fbase,
                   phase, fault, term, m_output_handler, runs, steps, passes,
                   elapsed_cycles, max_cycles, m_symbols>>

\* history: what a call of interrupt() starts from
InterruptHist(M, data_on_bus) ==
    [kind |-> "interrupt", data_on_bus |-> data_on_bus, r0 |-> M.r, mem0 |-> M.mem,
     cycles |-> 0]

\* m_r = (m_r & 0x80) | ((m_r + 1) & 0x7f)
BumpR(m_r) == Bit(m_r, 7) * 128 + ((m_r + 1) % 128)

\* the acceptance of an interrupt: m_iff1 = m_iff2 = 0 and R is bumped
Accepted(M) == [M EXCEPT !.r.m_iff1 = 0, !.r.m_iff2 = 0, !.r.m_r = BumpR(M.r.m_r)]

\* (a variant that leaves IFF2 as it was)
interrupt_keeps_iff2(M, data_on_bus, env) ==
    LET h0 == InterruptHist(M, data_on_bus)
        Ac == [M EXCEPT !.r.m_iff1 = 0, !.r.m_r = BumpR(M.r.m_r)]
        Pu == push(Ac, M.r.m_pc)
    IN IF M.r.m_iff1 = 0 THEN [M EXCEPT !.h = h0]
       ELSE IF M.r.m_im = "IM1"
       THEN [SetReg(Pu, "m_pc", 56) EXCEPT !.h = [h0 EXCEPT !.cycles = 13]]
       ELSE [SetReg(Pu, "m_pc", read_word(Pu.mem, U16(M.r.m_i * 256 + data_on_bus)))
                EXCEPT !.h = [h0 EXCEPT !.cycles = 19]]

\* Processor::interrupt(data_on_bus).  In IM0 the byte on the bus is executed
\* as an opcode by emulate(data_on_bus, false, 2, 4), entered at
\* start_emulation with pc = m_pc and m_effective_pc as it was left.
interrupt(M, data_on_bus, env) ==
    LET h0 == InterruptHist(M, data_on_bus)
        Ac == Accepted(M)
        Pu == push(Ac, M.r.m_pc)
    IN IF M.r.m_iff1 = 0 THEN [M EXCEPT !.h = h0]
       ELSE IF M.r.m_im = "IM0"
       THEN LET E == PassFetched([Ac EXCEPT !.pc = Ac.r.m_pc, !.elapsed = 2, !.max = 4,
                                           !.r.r = Ac.r.m_r % 128, !.tbl = "default"],
                                 PassHist(Ac, FALSE), Decode(data_on_bus), data_on_bus,
                                 env, FALSE)
            IN [E EXCEPT !.h = [h0 EXCEPT !.cycles = E.elapsed]]
       ELSE IF M.r.m_im = "IM1"
       THEN [SetReg(Pu, "m_pc", 56) EXCEPT !.h = [h0 EXCEPT !.cycles = 13]]
       ELSE [SetReg(Pu, "m_pc", read_word(Pu.mem, U16(M.r.m_i * 256 + data_on_bus)))
                EXCEPT !.h = [h0 EXCEPT !.cycles = 19]]

\* the bytes a device puts on the bus: NOP and RST 38h
BusBytes == {0, 255}

\* a device interrupts the processor between two calls of the emulation
Interrupt(data_on_bus) ==
    /\ phase \in {"ready", "stopped"}
    /\ hist.kind # "interrupt"
    /\ \E env \in Envs :
         \E M \in {interrupt(MState, data_on_bus, env)} :
            Commit([M EXCEPT !.pc = M.r.m_pc], phase, M.h)
    /\ UNCHANGED <<m_output_handler, runs, steps, passes>>

DebugNext ==
    \/ \E b \in BusBytes : Interrupt(b)
    \/ LoadBdos("cpm3")
    \/ SetupBios
    \/ \E prog \in DebugPrograms : LoadUser(prog)
    \/ LoadFcb(NoArguments)
    \/ Reset
    \/ SetupBdos
    \/ \E c \in DebugCommands : AddAction(c)
    \/ \E index \in 0..(MaxActions + 1) : RemoveAction(index)
    \/ Run
    \/ \E n \in 0..MaxStepCount : Step(n)
    \/ EmulateStep

SpecDebug == SysInit /\ [][DebugNext]_vars

-----------------------------------------------------------------------------
(* Properties of the disk *)

\* C1: a read of a location returns the 128 bytes most recently written to
\* that location in this session, whatever was read or written elsewhere in
\* between, for directory tracks and data tracks alike.
C1_ReadReturnsLastWrite ==
    (readLoc # NoLoc /\ readLoc \in DOMAIN written) => readBuf = written[readLoc]

\* C1 witness: a directory sector is read back after it was written and
\* after a data sector was written as well
C1_Witness ==
    /\ readLoc = <<0, 0>>
    /\ readLoc \in DOMAIN written
    /\ <<2, 0>> \in DOMAIN written
    /\ readBuf = written[readLoc]

\* The locations of the first rc sectors of a block list
SlotLocs(g) ==
    [i \in 1..g.rc |-> find_location_within_block(g.blocks[(i - 1) \div SectorsPerBlock + 1],
                                                  (i - 1) % SectorsPerBlock)]

\* C2: a file that the guest erased and then made again under the same name
\* exists on the host after the flush and holds the sectors written for it.
C2_RecreatedFileSurvivesFlush ==
    diskPhase = "flushed" =>
        \A n \in DOMAIN dirHist :
            dirHist[n].st = "recreated" =>
                /\ n \in DOMAIN hostfs
                /\ LET g == dirHist[n] IN
                   (/\ g.rc <= Len(g.blocks) * SectorsPerBlock
                    /\ \A i \in 1..g.rc : SlotLocs(g)[i] \in DOMAIN written)
                   => hostfs[n] = [i \in 1..g.rc |-> written[SlotLocs(g)[i]]]

-----------------------------------------------------------------------------
(* Properties of the machine *)

IsStep == hist.kind = "step"

\* C3: whenever a pass of the emulation loop begins with PC = 0x0008, the
\* instruction at 0x0008 is not executed (no register, stack or memory
\* effect), the observer is marked finished, and the call of emulate()
\* returns.
C3_SentinelStopsEmulation ==
    (IsStep /\ hist.at = 8) =>
        /\ hist.stopped
        /\ ~hist.executed
        /\ hist.wlog = <<>>
        /\ cpu.sp = hist.sp0
        /\ m_finished
        /\ phase \notin {"running", "bdos_init"}

C3_Witness ==
    /\ IsStep /\ hist.at = 8 /\ hist.unbounded /\ ~hist.fin0
    /\ phase = "stopped" /\ m_finished

\* C4: when the observer was marked finished during an instruction, the next
\* pass stops the loop without executing an instruction and leaves PC at the
\* address of that unexecuted instruction, where a later run() or step()
\* continues.
C4_StopsAtInstructionBoundary ==
    (IsStep /\ hist.fin0 /\ hist.at # 8) =>
        /\ hist.stopped
        /\ ~hist.executed
        /\ cpu.m_pc = hist.at

\* C5: a RET of the guest program on the stack that reset() left (SP =
\* 0xF800), with the page-zero JP and the WBOOT vector as setup_bios left
\* them, goes to 0x0000, through the JP there to the WBOOT vector, through
\* that to the WBOOT stub, where the observer is marked finished; the next
\* pass ends run() and no exception has been raised.
C5_RetOnInitialStackEndsRun ==
    IsStep =>
        /\ hist.age = 1 => (hist.executed /\ pc = 0 /\ phase = "running")
        /\ hist.age = 2 => (hist.at = 0 /\ hist.executed /\ phase = "running"
                            /\ pc = bios.m_discovered_base + 3)
        /\ hist.age = 3 => (hist.at = bios.m_discovered_base + 3 /\ hist.executed
                            /\ phase = "running" /\ pc = bios.m_stubs_base + 1)
        /\ hist.age = 4 => (hist.at = bios.m_stubs_base + 1 /\ hist.ret = "true"
                            /\ hist.executed /\ m_finished /\ phase = "running")
        /\ hist.age = 5 => (hist.stopped /\ m_finished /\ phase = "stopped"
                            /\ fault = "none")

C5_Witness ==
    /\ IsStep /\ hist.age = 5 /\ hist.stopped
    /\ phase = "stopped" /\ fault = "none" /\ m_finished
    /\ m_check_memory_accesses

\* C6: when a pass begins at a serviced stub (stubs_base + i) that still holds
\* its RET, service i has been performed once - CONOUT has printed the
\* character in C once, and nothing else has been printed - and the RET has
\* popped the caller's return address: the emulation continues there with SP
\* increased by 2.
C6_StubServicedOnceThenReturns ==
    (IsStep /\ hist.ret = "true" /\ hist.opcode = 201) =>
        LET fn == hist.at - hist.bios0.m_stubs_base IN
        /\ hist.executed
        /\ pc = hist.top0
        /\ cpu.sp = (hist.sp0 + 2) % 65536
        /\ term = IF fn = 4 THEN Append(hist.term0, hist.c0) ELSE hist.term0
        /\ fn = 1 => m_finished
        /\ fn = 8 => bios.m_track = 0
        /\ fn = 10 => bios.m_track = hist.bc0
        /\ fn = 11 => bios.m_sector = hist.bc0
        /\ fn = 12 => bios.m_dma = hist.bc0
        /\ fn = 16 => cpu.hl = hist.bc0

C6_Witness ==
    /\ IsStep /\ hist.ret = "true" /\ hist.opcode = 201
    /\ hist.at = StubsBase + 4
    /\ term = <<65>>
    /\ hist.top0 = UserBase + 6 /\ pc = UserBase + 6

\* C7: check_and_handle(pc) returns true exactly when pc is one of the 33
\* stub addresses stubs_base..stubs_top, and for any other pc returns false
\* and changes nothing.
C7_InterceptsExactlyTheStubs ==
    (IsStep /\ ~hist.stopped /\ hist.bios0.present /\ hist.at # m_fbase) =>
        LET inside == hist.at >= hist.bios0.m_stubs_base
                      /\ hist.at <= hist.bios0.m_stubs_top
        IN /\ inside <=> hist.ret = "true"
           /\ ~inside => (hist.ret = "false" /\ hist.svcSame)

\* C8: once the BIOS has been constructed, each of the 33 vectors at
\* jump_base + 3*i is a JP (0xC3) to stubs_base + i, and stubs_base + i holds
\* a RET (0xC9).
C8_AllVectorsJumpToStubs ==
    (hist.kind = "setup_bios" /\ bios.present) =>
        \A i \in 0..(table_size - 1) :
            /\ MemRead(mem, bios.m_discovered_base + 3 * i) = 195
            /\ read_word(mem, bios.m_discovered_base + 3 * i + 1) = bios.m_stubs_base + i
            /\ MemRead(mem, bios.m_stubs_base + i) = 201

VectorBytes == {0, 1, 2, 5, 6, 7}

\* the write w changes a byte at one of the addresses in S
Changes(w, S) ==
    \E j \in 1..w.width : (w.addr + j - 1) % 65536 \in S /\ w.val[j] # w.old[j]

\* the write w touches an address in lo..hi
Touches(w, lo, hi) ==
    \E j \in 1..w.width : (w.addr + j - 1) % 65536 >= lo /\ (w.addr + j - 1) % 65536 <= hi

\* C9: with the memory checks on, a write_byte or write_word of a guest
\* instruction that would change a byte at 0x0000-0x0002 or 0x0005-0x0007
\* stores nothing and aborts the emulation with the illegal-write error.
C9_VectorWritesAreFatal ==
    IsStep =>
        \A k \in 1..Len(hist.wlog) :
            (hist.wlog[k].chk /\ Changes(hist.wlog[k], VectorBytes)) =>
                /\ ~hist.wlog[k].stored
                /\ phase = "aborted"
                /\ fault = "Aborting: illegal memory write"

\* C10: with the memory checks on, a write_byte or write_word of a guest
\* instruction that touches an address in jump_base..stubs_top raises the
\* BIOS-tampering error before anything is stored: both bytes of the target
\* hold what they held before.
C10_BiosRegionWritesRejected ==
    IsStep =>
        \A k \in 1..Len(hist.wlog) :
            LET w == hist.wlog[k] IN
            (w.chk /\ hist.bios0.present
                   /\ Touches(w, hist.bios0.m_discovered_base, hist.bios0.m_stubs_top)) =>
                /\ ~w.stored
                /\ phase = "aborted"
                /\ fault = "BIOS tampering!"
                /\ \A j \in 1..w.width : MemRead(mem, (w.addr + j - 1) % 65536) = w.old[j]

C10_Witness ==
    /\ IsStep /\ Len(hist.wlog) = 1
    /\ hist.wlog[1].chk /\ hist.wlog[1].width = 2
    /\ hist.wlog[1].addr = JumpBase - 1
    /\ ~hist.wlog[1].stored
    /\ phase = "aborted" /\ fault = "BIOS tampering!"
    /\ read_word(mem, JumpBase + 1) = StubsBase

-----------------------------------------------------------------------------
(* Properties of the BIOS construction *)

\* C11: when the byte at jump_base or the byte at jump_base + 3 of the image
\* is not 0xC3, setup_bios fails with "BIOS jump table not found", no Bios
\* exists afterwards, and every byte from the jump table to the end of the
\* DPH area holds what it held before the call.
C11_NoTableLeavesMemoryAlone ==
    (hist.kind = "setup_bios"
        /\ (MemRead(hist.mem0, JumpBase) # 195 \/ MemRead(hist.mem0, JumpBase + 3) # 195)) =>
        /\ phase = "aborted"
        /\ fault = "BIOS jump table not found"
        /\ ~bios.present
        /\ \A a \in JumpBase..BiosLayout(JumpBase).dph_top :
              MemRead(mem, a) = MemRead(hist.mem0, a)

C11_Witness ==
    /\ hist.kind = "setup_bios"
    /\ MemRead(hist.mem0, JumpBase) = 195
    /\ MemRead(hist.mem0, JumpBase + 3) = 243
    /\ MemRead(mem, JumpBase + 4) = 243
    /\ fault = "BIOS jump table not found"

\* C12: a pass that begins at the READ or the WRITE stub completes the BIOS
\* call with A = 0 and goes on with the RET of the stub, also when the host
\* file behind the sector cannot be opened: no exception leaves the call.
C12_DiskFailureIsOnlyLogged ==
    (IsStep /\ ~hist.stopped /\ hist.bios0.present /\ hist.opcode = 201
        /\ hist.at \in {hist.bios0.m_stubs_base + 13, hist.bios0.m_stubs_base + 14}) =>
        /\ hist.ret = "true"
        /\ hist.executed
        /\ cpu.a = 0
        /\ fault = "none"
        /\ pc = hist.top0

-----------------------------------------------------------------------------
(* Properties of the directory construction *)

CeilDiv(n, d) == (n + d - 1) \div d

\* The indices of the entries of the host file 'name', in directory order
EntriesOf(name) == {k \in 1..Len(m_entries) : m_entries[k].m_raw_name = name}

\* The blocks of the entries of the host file 'name'
BlocksOf(name) ==
    UNION {{m_entries[k].m_blocks[j] : j \in 1..Len(m_entries[k].m_blocks)} :
             k \in EntriesOf(name)}

Listed == {i \in 1..Len(hist.files) : hist.files[i].name # ZcpmLog}

Built == diskPhase = "live" /\ hist.kind = "scan"

\* C13: after construction a host file of N bytes has ceil(N/16384) entries
\* whose block lists, concatenated, are the ceil(N/2048) consecutive block
\* numbers from the file's first block on; no block is below 0x10 and no
\* block belongs to two files.
C13_BlocksCoverEveryFile ==
    Built =>
        /\ \A i \in Listed :
              LET f  == hist.files[i]
                  E  == EntriesOf(f.name)
              IN /\ Cardinality(E) = CeilDiv(f.size, 16384)
                 /\ \A k \in E :
                       /\ BlocksOf(f.name) =
                              m_entries[k].m_first_block
                                 .. (m_entries[k].m_first_block + CeilDiv(f.size, BlockSize) - 1)
                       /\ \A j \in 2..Len(m_entries[k].m_blocks) :
                             m_entries[k].m_blocks[j] = m_entries[k].m_blocks[j - 1] + 1
                       /\ \A k2 \in E : k < k2 =>
                             /\ m_entries[k].m_extent < m_entries[k2].m_extent
                             /\ \A j \in 1..Len(m_entries[k].m_blocks) :
                                   \A j2 \in 1..Len(m_entries[k2].m_blocks) :
                                       m_entries[k].m_blocks[j] < m_entries[k2].m_blocks[j2]
        /\ \A k \in 1..Len(m_entries) : \A j \in 1..Len(m_entries[k].m_blocks) :
              /\ m_entries[k].m_blocks[j] >= InitialNextBlock
              /\ \A k2 \in 1..Len(m_entries) :
                    m_entries[k2].m_raw_name # m_entries[k].m_raw_name =>
                        ~SeqContains(m_entries[k2].m_blocks, m_entries[k].m_blocks[j])
        /\ m_next_block >= InitialNextBlock

\* C14: after construction every listed regular file other than zcpm.log
\* has at least one directory entry, a file of no bytes included.
C14_EveryFileHasAnEntry ==
    Built => \A i \in Listed : EntriesOf(hist.files[i].name) # {}

-----------------------------------------------------------------------------
(* Properties of the debug actions and of the instruction emulation *)

\* C15: no instruction executes at an address while a Breakpoint is
\* registered at that address: the actions at A are evaluated, and the
\* Breakpoint stops the call, before the instruction at A runs, in run() and
\* in step(), the first instruction of the call included.
C15_BreakpointStopsBeforeInstruction ==
    (IsStep /\ hist.executed) =>
        \A k \in 1..Len(hist.actions0) :
            ~(hist.actions0[k].type = "BREAKPOINT" /\ hist.actions0[k].m_address = hist.at)

PassPoints ==
    {k \in 1..Len(m_debug_actions) :
        m_debug_actions[k].type = "PASSPOINT" /\ m_debug_actions[k].initial >= 1}

\* C16: a PassPoint created with count N >= 1 has answered true to each of
\* its first N-1 hits and false to the N-th and to every later one; remaining
\* is N minus the hits until it is zero and stays zero.
C16_PassPointCountsDown ==
    \A k \in PassPoints :
        LET a == m_debug_actions[k] IN
        /\ a.hits = 0 => (a.last = "none" /\ a.m_remaining = a.initial)
        /\ (a.hits >= 1 /\ a.hits < a.initial) =>
               (a.last = "true" /\ a.m_remaining = a.initial - a.hits)
        /\ a.hits >= a.initial => (a.last = "false" /\ a.m_remaining = 0)

C16_Witness ==
    \E k \in PassPoints :
        /\ m_debug_actions[k].initial = 2
        /\ m_debug_actions[k].hits = 3
        /\ m_debug_actions[k].m_remaining = 0
        /\ phase = "stopped"

\* what show_actions prints: the actions in the multimap's order, numbered from 1
show_actions(actions) == [k \in 1..Len(actions) |-> [number |-> k, action |-> actions[k]]]

\* the listing without its entry number i
ListingWithout(listing, i) ==
    [k \in 1..(Len(listing) - 1) |->
        IF k < i THEN listing[k].action ELSE listing[k + 1].action]

\* remove_action(i) with 1 <= i <= count removes the action listed as number
\* i and keeps the others in their order; any other i returns false and
\* changes nothing
RemoveFollowsListing ==
    hist.kind = "remove_action" =>
        LET listing == show_actions(hist.before) IN
        IF hist.index >= 1 /\ hist.index <= Len(listing)
        THEN /\ hist.ret
             /\ m_debug_actions = Renumber(ListingWithout(listing, hist.index))
        ELSE /\ ~hist.ret
             /\ m_debug_actions = hist.before

\* C17 (as amended): remove_action(i) follows the listing of show_actions,
\* and the listing is numbered by ascending address, in insertion order among
\* the actions at one address.
C17_ListedByAddressThenInsertion ==
    /\ RemoveFollowsListing
    /\ \A j, k \in 1..Len(m_debug_actions) :
          j < k =>
             \/ m_debug_actions[j].m_address < m_debug_actions[k].m_address
             \/ /\ m_debug_actions[j].m_address = m_debug_actions[k].m_address
                /\ m_debug_actions[j].id < m_debug_actions[k].id

\* C17 (as stated): remove_action(i) follows the listing of show_actions,
\* and the listing is numbered in insertion order.
C17_ListedInInsertionOrder ==
    /\ RemoveFollowsListing
    /\ \A j, k \in 1..Len(m_debug_actions) :
          j < k => m_debug_actions[j].id < m_debug_actions[k].id

\* the first of two listed actions was removed, the one inserted later, and
\* the other is still listed
C17_Witness ==
    /\ hist.kind = "remove_action"
    /\ hist.index = 1
    /\ Len(hist.before) = 2
    /\ hist.before[1].id = 2
    /\ hist.ret
    /\ Len(m_debug_actions) = 1
    /\ m_debug_actions[1].m_address = hist.before[2].m_address
    /\ m_debug_actions[1].type = hist.before[2].type

\* The encoded length of the Z80 instruction at address a, prefix bytes
\* included: a DD or FD adds one byte to what follows, DD CB d op and
\* FD CB d op are four bytes, CB op and ED op are two
BaseLen(opcode) ==
    CASE opcode \in {1, 17, 33, 49, 34, 50, 195, 205} -> 3
      [] opcode \in {14, 62, 211}                      -> 2
      [] OTHER                                         -> 1

RECURSIVE InstrLen(_, _, _)
InstrLen(memory, a, indexed) ==
    LET opcode == MemRead(memory, U16(a))
    IN IF opcode \in {221, 253} THEN 1 + InstrLen(memory, a + 1, TRUE)
       ELSE IF opcode = 203 THEN (IF indexed THEN 3 ELSE 2)
       ELSE IF opcode = 237 THEN 2
       ELSE BaseLen(opcode)

\* the opcode behind the DD and FD prefixes of the instruction at address a
RECURSIVE FinalOpcode(_, _)
FinalOpcode(memory, a) ==
    LET opcode == MemRead(memory, U16(a))
    IN IF opcode \in {221, 253} THEN FinalOpcode(memory, a + 1) ELSE opcode

\* JP, CALL, RET and RST transfer control
TransfersControl(memory, a) ==
    FinalOpcode(memory, a) \in {195, 201, 205, 199, 207, 215, 223, 231, 239, 247, 255}

\* a call of emulate_instruction() with the observer running and PC not at
\* 0x0008 that executed an instruction
SteppedOne ==
    IsStep /\ ~hist.unbounded /\ ~hist.fin0 /\ hist.at # 8 /\ hist.executed

\* C18: with the observer running and PC not at 0x0008, emulate_instruction()
\* executes exactly one complete instruction with its whole prefix chain and
\* returns; when the instruction does not transfer control, PC is then the
\* old PC plus the encoded length of the instruction, prefix bytes included;
\* for NOP that is PC + 1, with 4 cycles and every other register unchanged.
C18_StepAdvancesByInstructionLength ==
    SteppedOne =>
        /\ hist.returned
        /\ ~TransfersControl(hist.mem0, hist.at) =>
              cpu.m_pc = U16(hist.at + InstrLen(hist.mem0, hist.at, FALSE))
        /\ hist.opcode = 0 =>
              /\ elapsed_cycles = 4
              /\ cpu = [hist.r0 EXCEPT !.m_pc = U16(hist.at + 1),
                                       !.m_r = cpu.m_r, !.r = cpu.r]

\* a pass executed the LDIR or LDDR at hist.at, in run() or in step()
BlockMoved ==
    /\ IsStep /\ hist.executed /\ hist.opcode = 237
    /\ MemRead(hist.mem0, U16(hist.at + 1)) \in {176, 184}

\* the step of the addresses and the number of bytes of that block move
BlockDir == IF MemRead(hist.mem0, U16(hist.at + 1)) = OPCODE_LDIR THEN 1 ELSE -1
BlockCount == IF hist.r0.bc = 0 THEN 65536 ELSE hist.r0.bc

\* the source and the target of the block move do not overlap
BlockDisjoint ==
    \A i, j \in 0..(BlockCount - 1) :
        U16(hist.r0.hl + BlockDir * i) # U16(hist.r0.de + BlockDir * j)

\* the block move ran until BC = 0 within the one call: the bytes are
\* copied, HL and DE have moved by the count, 21 cycles are charged for each
\* iteration but the last and 16 for the last, and PC is behind the instruction
BlockRanToTheEnd ==
    /\ cpu.bc = 0
    /\ cpu.hl = U16(hist.r0.hl + BlockDir * BlockCount)
    /\ cpu.de = U16(hist.r0.de + BlockDir * BlockCount)
    /\ elapsed_cycles - hist.elapsed0 = 21 * (BlockCount - 1) + 16
    /\ pc = U16(hist.at + 2)
    /\ BlockDisjoint =>
          \A i \in 0..(BlockCount - 1) :
              MemRead(mem, U16(hist.r0.de + BlockDir * i))
                 = MemRead(hist.mem0, U16(hist.r0.hl + BlockDir * i))

C20_InstructionAfterDiEiStillExecutes ==
    (IsStep /\ ~hist.unbounded /\ hist.executed /\ hist.opcode \in {243, 251}) =>
        /\ max_cycles = 4
        /\ ~hist.returned

\* the pass executed LD R,A (ED 4F) or LD A,R (ED 5F)
ExecutedED(op2) ==
    /\ IsStep /\ hist.executed /\ hist.opcode = 237
    /\ MemRead(hist.mem0, U16(hist.at + 1)) = op2

\* the opcode fetches of the pass: one for the opcode and one for each
\* prefix byte; in DD CB d op and FD CB d op the bytes behind the CB are not
\* opcode fetches; a block move fetches its two bytes again for every repeat
OpcodeFetches ==
    IF BlockMoved THEN 2 * BlockCount
    ELSE IF /\ hist.opcode \in {221, 253}
            /\ FinalOpcode(hist.mem0, hist.at) = 203
    THEN hist.prefixes
    ELSE 1 + hist.prefixes

\* the low 7 bits count the opcode fetches of every executed instruction
\* but LD R,A
RCountsFetches ==
    (IsStep /\ hist.executed /\ ~ExecutedED(79)) =>
        cpu.r % 128 = (hist.r0.r + OpcodeFetches) % 128

\* C21: the top bit of R is the bit most recently written to it by LD R,A,
\* whatever was fetched since; the low 7 bits go up by one, modulo 128, with
\* every opcode fetch, prefix bytes included; LD A,R returns the two combined.
C21_RKeepsWrittenTopBit ==
    /\ (IsStep /\ hist.returned) => Bit(cpu.m_r, 7) = cpu.r_written
    /\ RCountsFetches
    /\ ExecutedED(95) => cpu.a = cpu.r_written * 128 + (cpu.r % 128)

\* the word on top of the stack
TopOfStack == read_word(mem, cpu.sp)

\* an accepted interrupt has cleared IFF1 and IFF2 and bumped R, and in IM1
\* and IM2 its only other effects are the push of PC and the new PC
AcceptedFrom(r0, new_pc) ==
    /\ cpu = [r0 EXCEPT !.m_iff1 = 0, !.m_iff2 = 0, !.m_r = BumpR(r0.m_r),
                        !.sp = U16(r0.sp + 65534), !.m_pc = new_pc]
    /\ TopOfStack = r0.m_pc
    /\ mem = MemStore(MemStore(hist.mem0, cpu.sp, r0.m_pc % 256),
                      U16(cpu.sp + 1), r0.m_pc \div 256)

\* C22: interrupt(b) with IFF1 clear changes no register and no memory and
\* returns 0 cycles; with IFF1 set it clears IFF1 and IFF2 and bumps R (in
\* IM0 the opcode taken from the bus is a second fetch), and then in IM1 pushes PC, sets PC to 0x0038 and returns 13 cycles, and in IM2
\* pushes PC, sets PC to the word at (I << 8) | b and returns 19 cycles.
C22_InterruptByMode ==
    (hist.kind = "interrupt" /\ fault = "none") =>
        /\ hist.r0.m_iff1 = 0 =>
              cpu = hist.r0 /\ mem = hist.mem0 /\ hist.cycles = 0
        /\ hist.r0.m_iff1 # 0 =>
              /\ cpu.m_iff1 = 0 /\ cpu.m_iff2 = 0
              /\ cpu.m_r \in {BumpR(hist.r0.m_r), BumpR(BumpR(hist.r0.m_r))}
              /\ hist.r0.m_im # "IM0" => cpu.m_r = BumpR(hist.r0.m_r)
        /\ (hist.r0.m_iff1 # 0 /\ hist.r0.m_im = "IM1") =>
              AcceptedFrom(hist.r0, 56) /\ hist.cycles = 13
        /\ (hist.r0.m_iff1 # 0 /\ hist.r0.m_im = "IM2") =>
              /\ AcceptedFrom(hist.r0,
                     read_word(hist.mem0, hist.r0.m_i * 256 + hist.data_on_bus))
              /\ hist.cycles = 19

\* an interrupt was accepted in IM2 through a vector that is not zero
C22_WitnessIM2 ==
    /\ hist.kind = "interrupt" /\ fault = "none"
    /\ hist.r0.m_iff1 = 1 /\ hist.r0.m_iff2 = 1 /\ hist.r0.m_im = "IM2"
    /\ hist.r0.m_i = 1
    /\ cpu.m_pc = read_word(hist.mem0, 256 + hist.data_on_bus)
    /\ cpu.m_pc # 0
    /\ hist.cycles = 19

\* a pass executed an opcode that has no IX or IY form behind a run of DD
\* and FD bytes
SpuriousPrefixes ==
    /\ IsStep /\ hist.executed /\ hist.opcode \in {221, 253}
    /\ FinalOpcode(hist.mem0, hist.at) \notin DdFdPrefixable

\* C23: k DD/FD bytes in front of an opcode that has no IX/IY form leave
\* registers and memory exactly as the opcode alone leaves them; PC ends
\* behind the same opcode, k bytes further from where the pass began, and
\* each prefix adds 4 cycles and one to R.
C23_SpuriousPrefixesOnlyCost ==
    SpuriousPrefixes =>
        /\ hist.alone.k = hist.prefixes
               - (IF FinalOpcode(hist.mem0, hist.at) = 237 THEN 1 ELSE 0)
        /\ hist.alone.executed
        /\ mem = hist.alone.mem
        /\ pc = hist.alone.pc
        /\ hist.returned = hist.alone.stop
        /\ [cpu EXCEPT !.r = 0, !.m_r = 0, !.m_pc = 0]
              = [hist.alone.r EXCEPT !.r = 0, !.m_r = 0, !.m_pc = 0]
        /\ elapsed_cycles = hist.alone.elapsed + 4 * hist.alone.k
        /\ cpu.r = U8(hist.alone.r.r + hist.alone.k)

\* FD DD LD DE,2000h has loaded DE as LD DE,2000h alone does
C23_Witness ==
    /\ SpuriousPrefixes
    /\ hist.alone.k = 2
    /\ FinalOpcode(hist.mem0, hist.at) = 17
    /\ cpu.de = 8192 /\ hist.r0.de # 8192
    /\ cpu.de = hist.alone.r.de
    /\ pc = U16(hist.at + 5)

\* the BIOS function a pass serviced, -1 for a pass that serviced none
ServicedFn ==
    IF IsStep /\ hist.ret = "true" /\ hist.bios0.present
    THEN hist.at - hist.bios0.m_stubs_base ELSE -1

\* track, sector and DMA address of a Bios
Selected(b) == <<b.m_track, b.m_sector, b.m_dma>>

\* the 128 bytes of memory from address base on
SectorInRam(memory, base) == [i \in 1..SectorSize |-> MemRead(memory, U16(base + i - 1))]

\* C24: READ and WRITE work on the track, sector and DMA address last set by
\* SETTRK or HOME, SETSEC and SETDMA (track 0, sector 0, DMA 0x0080 at first);
\* HOME sets the track to 0 and nothing else, each setter changes its own
\* value only, and READ, WRITE and everything else leave the three alone.
C24_DiskTransfersUseSelection ==
    /\ phase = "bios_ready" => Selected(bios) = <<0, 0, 128>>
    /\ (IsStep /\ fault = "none" /\ hist.bios0.present /\ bios.present) =>
         LET b0 == hist.bios0
             location == <<b0.m_track, b0.m_sector>>
         IN /\ ServicedFn = 8  => Selected(bios) = <<0, b0.m_sector, b0.m_dma>>
            /\ ServicedFn = 10 => Selected(bios) = <<hist.bc0, b0.m_sector, b0.m_dma>>
            /\ ServicedFn = 11 => Selected(bios) = <<b0.m_track, hist.bc0, b0.m_dma>>
            /\ ServicedFn = 12 => Selected(bios) = <<b0.m_track, b0.m_sector, hist.bc0>>
            /\ ServicedFn \notin {8, 10, 11, 12} => Selected(bios) = Selected(b0)
            /\ ServicedFn = 13 =>
                  /\ location \in DOMAIN m_sector_cache
                  /\ SectorInRam(mem, b0.m_dma) = m_sector_cache[location].m_data
            /\ ServicedFn = 14 =>
                  /\ location \in DOMAIN m_sector_cache
                  /\ m_sector_cache[location].m_data = SectorInRam(hist.mem0, b0.m_dma)

\* a READ into 0x2000 has brought back what a WRITE from 0x0100 put into
\* track 0x0100, sector 0
C24_Witness ==
    /\ ServicedFn = 13 /\ fault = "none"
    /\ Selected(bios) = <<256, 0, 8192>>
    /\ SectorInRam(mem, 8192) = SectorInRam(mem, 256)
    /\ MemRead(mem, 8192) = 1

-----------------------------------------------------------------------------
(* One instruction on the A register (src/tests/test_processor.cpp,        *)
(* test_8bit_register_instruction): a fresh machine with A and F given,    *)
(* INC A at 0x0005, PC there, and one emulate_instruction().               *)

OPCODE_INC_A == 60

AluInit ==
    /\ \E a \in 0..255 : \E f \in 0..255 :
          cpu = [ResetCpu EXCEPT !.a = a, !.f = f, !.m_pc = 5]
    /\ mem = (5 :> OPCODE_INC_A)
    /\ pc = 5
    /\ m_effective_pc = 0
    /\ m_finished = FALSE
    /\ m_check_memory_accesses = FALSE
    /\ m_enable_memory_checks = TRUE
    /\ bios = NoBios
    /\ m_fbase = 0
    /\ phase = "stepping"
    /\ fault = "none"
    /\ term = <<>>
    /\ m_output_handler = "none"
    /\ runs = 0
    /\ steps = 1
    /\ passes = 0
    /\ m_debug_actions = <<>>
    /\ elapsed_cycles = 0
    /\ max_cycles = 0
    /\ m_symbols = <<>>
    /\ hist = NoHist
    /\ m_entries = <<>>
    /\ m_sector_cache = <<>>
    /\ m_next_block = InitialNextBlock
    /\ hostfs = <<>>
    /\ diskPhase = "none"
    /\ readLoc = NoLoc
    /\ readBuf = <<>>
    /\ written = <<>>
    /\ dirHist = <<>>
    /\ diskOps = 0

AluNext == EmulateStep

SpecAlu == AluInit /\ [][AluNext]_vars

\* the pass just made executed INC A
IncrementedA == IsStep /\ hist.executed /\ hist.opcode = OPCODE_INC_A /\ hist.prefixes = 0

\* C25: for every A and F, INC A gives A' = (A + 1) mod 256 in 4 cycles, S is
\* bit 7 of A', Z is set iff A' = 0, Y and X are bits 5 and 3 of A', H is set
\* iff the low nibble of A was 0xF, P/V iff A was 0x7F, N is cleared and C is
\* kept; A = 0x7F with F = 0 gives A = 0x80 with exactly S, H and P/V.
C25_IncAFlags ==
    IncrementedA =>
        LET a0 == hist.r0.a
            f0 == hist.r0.f
            a1 == cpu.a
            f1 == cpu.f
        IN /\ a1 = (a0 + 1) % 256
           /\ elapsed_cycles = hist.elapsed0 + 4
           /\ Bit(f1, 7) = Bit(a1, 7)
           /\ (Bit(f1, 6) = 1) <=> (a1 = 0)
           /\ Bit(f1, 5) = Bit(a1, 5)
           /\ Bit(f1, 3) = Bit(a1, 3)
           /\ (Bit(f1, 4) = 1) <=> (a0 % 16 = 15)
           /\ (Bit(f1, 2) = 1) <=> (a0 = 127)
           /\ Bit(f1, 1) = 0
           /\ Bit(f1, 0) = Bit(f0, 0)
           /\ (a0 = 127 /\ f0 = 0) =>
                 a1 = 128 /\ f1 = S_FLAG_MASK + H_FLAG_MASK + PV_FLAG_MASK
           /\ [cpu EXCEPT !.a = 0, !.f = 0, !.m_pc = 0, !.r = 0, !.m_r = 0]
                = [hist.r0 EXCEPT !.a = 0, !.f = 0, !.m_pc = 0, !.r = 0, !.m_r = 0]
           /\ mem = hist.mem0

\* INC A of 0xFF with the carry set: A = 0, F = Z, H and C
C25_Witness ==
    /\ IncrementedA
    /\ hist.r0.a = 255 /\ hist.r0.f = 255
    /\ cpu.a = 0
    /\ cpu.f = Z_FLAG_MASK + H_FLAG_MASK + C_FLAG_MASK

-----------------------------------------------------------------------------
(* Word access to a fresh Hardware (src/core/hardware.cpp): the caller     *)
(* picks an address, then writes words there and reads them back.          *)

WordValues == {4660, 255, 65280}    \* 0x1234, 0x00FF, 0xFF00

MemInit ==
    /\ \E address \in 0..65535 :
          hist = [kind |-> "word", op |-> "none", address |-> address, x |-> 0, v |-> 0]
    /\ mem = <<>>
    /\ cpu = ResetCpu
    /\ pc = 0
    /\ m_effective_pc = 0
    /\ m_finished = FALSE
    /\ m_check_memory_accesses = FALSE
    /\ m_enable_memory_checks = TRUE
    /\ bios = NoBios
    /\ m_fbase = 0
    /\ phase = "none"
    /\ fault = "none"
    /\ term = <<>>
    /\ m_output_handler = "none"
    /\ runs = 0
    /\ steps = 0
    /\ passes = 0
    /\ m_debug_actions = <<>>
    /\ elapsed_cycles = 0
    /\ max_cycles = 0
    /\ m_symbols = add(<<>>, ZCPM, 65520, <<"T", "B", "D", "!">>)
    /\ m_entries = <<>>
    /\ m_sector_cache = <<>>
    /\ m_next_block = InitialNextBlock
    /\ hostfs = <<>>
    /\ diskPhase = "none"
    /\ readLoc = NoLoc
    /\ readBuf = <<>>
    /\ written = <<>>
    /\ dirHist = <<>>
    /\ diskOps = 0

\* Hardware::write_word(address, x)
WriteWord(x) ==
    /\ hist.kind = "word"
    /\ LET M == write_word(MState, hist.address, x)
       IN /\ mem' = M.mem
          /\ fault' = M.fault
    /\ hist' = [hist EXCEPT !.op = "write", !.x = x, !.v = 0]
    /\ UNCHANGED <<diskVars, cpu, pc, m_effective_pc, m_finished,
                   m_check_memory_accesses, m_enable_memory_checks, bios, m_fbase,
                   phase, term, m_output_handler, runs, steps, passes,
                   m_debug_actions, elapsed_cycles, max_cycles, m_symbols>>

\* Hardware::read_word(address)
ReadWord ==
    /\ hist.kind = "word"
    /\ hist' = [hist EXCEPT !.op = "read", !.x = 0, !.v = read_word(mem, hist.address)]
    /\ UNCHANGED <<diskVars, mem, fault, cpu, pc, m_effective_pc, m_finished,
                   m_check_memory_accesses, m_enable_memory_checks, bios, m_fbase,
                   phase, term, m_output_handler, runs, steps, passes,
                   m_debug_actions, elapsed_cycles, max_cycles, m_symbols>>

MemNext ==
    \/ \E x \in WordValues : WriteWord(x)
    \/ ReadWord

SpecMem == MemInit /\ [][MemNext]_vars

\* the address after a, as read_byte((addr + 1) & 0xFFFF) takes it
NextAddress(a) == IF a = 65535 THEN 0 ELSE a + 1

\* C26: read_word(addr) is read_byte(addr) | read_byte((addr + 1) & 0xFFFF) << 8
\* for every address, the high byte of 0xFFFF being the byte at 0x0000, and
\* write_word leaves the low byte of its value at addr, the high byte at
\* (addr + 1) & 0xFFFF and every other byte alone.
C26_WordsAreLittleEndian ==
    hist.kind = "word" =>
        LET a == hist.address
        IN /\ hist.op = "read" =>
                hist.v = MemRead(mem, a) + 256 * MemRead(mem, NextAddress(a))
           /\ hist.op = "write" =>
                /\ MemRead(mem, a) = hist.x % 256
                /\ MemRead(mem, NextAddress(a)) = hist.x \div 256
           /\ DOMAIN mem \subseteq {a, NextAddress(a)}
           /\ fault = "none"

\* 0xFF00 written at 0xFFFF has been read back: the 0xFF is at 0x0000
C26_Witness ==
    /\ hist.kind = "word" /\ hist.op = "read"
    /\ hist.address = 65535
    /\ hist.v = 65280
    /\ MemRead(mem, 0) = 255 /\ MemRead(mem, 65535) = 0

-----------------------------------------------------------------------------
(* A SymbolTable on its own: symbols are added and addresses described.    *)

MaxSymbols == 3

SymAddresses == {256, 261, 4096, 65520}         \* 0100, 0105, 1000, FFF0
SymLabels == {<<"F", "O", "O">>, <<"B", "A", "R">>}
DescribedAddresses == {255, 256, 260, 261, 287, 4095, 4352, 65535}

SymInit ==
    /\ mem = <<>>
    /\ cpu = ResetCpu
    /\ pc = 0
    /\ m_effective_pc = 0
    /\ m_finished = FALSE
    /\ m_check_memory_accesses = FALSE
    /\ m_enable_memory_checks = TRUE
    /\ bios = NoBios
    /\ m_fbase = 0
    /\ phase = "none"
    /\ fault = "none"
    /\ term = <<>>
    /\ m_output_handler = "none"
    /\ runs = 0
    /\ steps = 0
    /\ passes = 0
    /\ m_debug_actions = <<>>
    /\ elapsed_cycles = 0
    /\ max_cycles = 0
    /\ m_symbols = <<>>
    /\ hist = NoHist
    /\ m_entries = <<>>
    /\ m_sector_cache = <<>>
    /\ m_next_block = InitialNextBlock
    /\ hostfs = <<>>
    /\ diskPhase = "none"
    /\ readLoc = NoLoc
    /\ readBuf = <<>>
    /\ written = <<>>
    /\ dirHist = <<>>
    /\ diskOps = 0

\* SymbolTable::add(prefix, a, label)
AddSymbol(a, label) ==
    /\ Len(m_symbols) < MaxSymbols
    /\ m_symbols' = add(m_symbols, ZCPM, a, label)
    /\ hist' = [kind |-> "add"]
    /\ UNCHANGED <<diskVars, mem, fault, cpu, pc, m_effective_pc, m_finished,
                   m_check_memory_accesses, m_enable_memory_checks, bios, m_fbase,
                   phase, term, m_output_handler, runs, steps, passes,
                   m_debug_actions, elapsed_cycles, max_cycles>>

\* SymbolTable::describe(a); the string returned is kept in hist
Describe(a) ==
    /\ hist' = [kind |-> "describe", a |-> a, result |-> describe(m_symbols, a)]
    /\ UNCHANGED <<diskVars, mem, fault, cpu, pc, m_effective_pc, m_finished,
                   m_check_memory_accesses, m_enable_memory_checks, bios, m_fbase,
                   phase, term, m_output_handler, runs, steps, passes,
                   m_debug_actions, elapsed_cycles, max_cycles, m_symbols>>

SymNext ==
    \/ \E a \in SymAddresses : \E label \in SymLabels : AddSymbol(a, label)
    \/ \E a \in DescribedAddresses : Describe(a)

SpecSym == SymInit /\ [][SymNext]_vars

\* the value of a string of hexadecimal digits, -1 when a character is none
RECURSIVE HexValue(_)
HexValue(digits) ==
    IF digits = <<>> THEN 0
    ELSE LET c == digits[Len(digits)]
             rest == HexValue(SubSeq(digits, 1, Len(digits) - 1))
             S == {v \in 0..15 : HexDigits[v + 1] = c}
         IN IF S = {} \/ rest < 0 THEN -1 ELSE rest * 16 + (CHOOSE v \in S : TRUE)

\* the string ends with + and d in hexadecimal
EndsWithOffset(str, d) ==
    \E k \in 1..(Len(str) - 1) :
        /\ str[k] = "+"
        /\ HexValue(SubSeq(str, k + 1, Len(str))) = d

\* the string names the symbol: it starts with namespace:label+
NamesSymbol(str, sym) ==
    LET name == sym.ns \o <<":">> \o sym.label \o <<"+">>
    IN Len(str) >= Len(name) /\ SubSeq(str, 1, Len(name)) = name

\* symbol i is at or below the address a and no other symbol has an address
\* in (key of i, a]
NothingAbove(i, a) ==
    /\ m_symbols[i].key <= a
    /\ \A j \in 1..Len(m_symbols) :
          j # i => ~(m_symbols[j].key > m_symbols[i].key /\ m_symbols[j].key <= a)

\* symbol i is the one added last at its address
LastAtItsAddress(i) ==
    \A j \in 1..Len(m_symbols) : m_symbols[j].key = m_symbols[i].key => j <= i

\* C27 (as stated): for any symbol at A and any d >= 0 with no other symbol
\* in (A, A + d], describe(A + d) names that symbol and ends with + and d in
\* hexadecimal.
C27_DescribeNamesTheSymbol ==
    hist.kind = "describe" =>
        \A i \in 1..Len(m_symbols) :
            NothingAbove(i, hist.a) =>
                /\ NamesSymbol(hist.result, m_symbols[i])
                /\ EndsWithOffset(hist.result, hist.a - m_symbols[i].key)

\* C27 (amended): for any symbol at A and any d >= 0 with no other symbol in
\* (A, A + d], describe(A + d) ends with + and d in four hexadecimal digits,
\* and it names that symbol when no symbol was added at A after it; of the
\* symbols that share an address the one added last is named.
C27_DescribeNamesLastAdded ==
    hist.kind = "describe" =>
        /\ \A i \in 1..Len(m_symbols) :
              NothingAbove(i, hist.a) =>
                  /\ EndsWithOffset(hist.result, hist.a - m_symbols[i].key)
                  /\ hist.result[Len(hist.result) - 4] = "+"
                  /\ LastAtItsAddress(i) => NamesSymbol(hist.result, m_symbols[i])
        /\ (\A i \in 1..Len(m_symbols) : m_symbols[i].key > hist.a) =>
              hist.result = <<"?">>

\* FOO and then BAR were added at 0x0100: 0x0104 is described as BAR+0004
C27_Witness ==
    /\ hist.kind = "describe" /\ hist.a = 260
    /\ Len(m_symbols) >= 2
    /\ m_symbols[1] = [key |-> 256, ns |-> ZCPM, label |-> <<"F", "O", "O">>]
    /\ m_symbols[2] = [key |-> 256, ns |-> ZCPM, label |-> <<"B", "A", "R">>]
    /\ NothingAbove(1, hist.a)
    /\ hist.result = ZCPM \o <<":", "B", "A", "R", "+", "0", "0", "0", "4">>

-----------------------------------------------------------------------------
(* The builder up to load_fcb (src/builder/builder.cpp), with the          *)
(* arguments of the command line.                                          *)

MaxArguments == 2

\* "foo.txt", "bar", "b:x.y" and an argument of 255 letters
ArgumentPool ==
    { <<102, 111, 111, 46, 116, 120, 116>>,
      <<98, 97, 114>>,
      <<98, 58, 120, 46, 121>>,
      [i \in 1..255 |-> 97] }

ArgumentLists == UNION {[1..n -> ArgumentPool] : n \in 0..MaxArguments}

FcbNext ==
    \/ \E kind \in ImageKinds : LoadBdos(kind)
    \/ SetupBios
    \/ \E prog \in UserPrograms : LoadUser(prog)
    \/ \E args \in ArgumentLists : LoadFcb(args)

SpecFcb == SysInit /\ [][FcbNext]_vars

\* C28: for any argument list, load_fcb leaves at 0x0080 a length byte equal
\* to the length of the command tail (a space and the upper-cased argument,
\* for each argument), then that tail, then 0x00.
C28_CommandTail ==
    (hist.kind = "load_fcb" /\ fault = "none") =>
        LET tail == CommandTail(hist.args)
        IN /\ MemRead(mem, command_tail_base) = Len(tail)
           /\ \A i \in 1..Len(tail) : MemRead(mem, command_tail_base + i) = tail[i]
           /\ MemRead(mem, command_tail_base + Len(tail) + 1) = 0

-----------------------------------------------------------------------------
(* The outcome of a directory write slot by slot *)

\* index of the first entry that stands in relation C to the pending entry,
\* 0 if there is none
FirstThat(entries, p, C(_, _)) ==
    LET S == {k \in 1..Len(entries) : C(entries[k], p)}
    IN IF S = {} THEN 0 ELSE CHOOSE k \in S : \A j \in S : k <= j

\* one slot handled with the outcomes in the order no action, content
\* modification, rename, creation, each looked for among all entries
OutcomeByKind(st, p) ==
    IF ~p.m_exists THEN ApplyPending(st, p)
    ELSE LET kn == FirstThat(st.entries, p, NoAction)
             kc == FirstThat(st.entries, p, ContentModification)
             kr == FirstThat(st.entries, p, Rename)
         IN IF kn # 0 THEN st
            ELSE IF kc # 0
            THEN [entries |-> [st.entries EXCEPT ![kc] =
                                  [@ EXCEPT !.m_sectors     = p.m_sectors,
                                            !.m_blocks      = p.m_blocks,
                                            !.m_size        = p.m_sectors * SectorSize,
                                            !.m_first_block = st.next,
                                            !.m_modified    = TRUE]],
                  next    |-> U16(st.next + 1)]
            ELSE IF kr # 0
            THEN [st EXCEPT !.entries[kr] = [@ EXCEPT !.m_name     = p.m_name,
                                                      !.m_raw_name = p.m_raw_name,
                                                      !.m_modified = TRUE]]
            ELSE [st EXCEPT !.entries = Append(st.entries, p)]

RECURSIVE SlotsByKind(_, _, _)
SlotsByKind(st, buffer, i) ==
    IF i >= SectorSize \div EntrySize THEN st
    ELSE SlotsByKind(OutcomeByKind(st, EntryFromBuffer(SubSeq(buffer, i * EntrySize + 1,
                                                                     (i + 1) * EntrySize))),
                     buffer, i + 1)

\* C29: for each slot of a directory sector being written whose byte 0 is not
\* 0xE5 exactly one outcome applies, in this priority: nothing changes if an
\* entry matches on name, extent and blocks; otherwise an entry that matches
\* on name and extent gets the slot's sectors and blocks and is marked
\* modified; otherwise an entry of another name with the same extent and the
\* same non-empty blocks is renamed and marked modified; otherwise one entry
\* is appended; all other entries stay as they are.
C29_OutcomeByPriority ==
    [][\A loc \in DirLocs : \A b \in DirBuffers :
          DiskWriteOp(loc, b) =>
              m_entries' = SlotsByKind([entries |-> m_entries, next |-> m_next_block],
                                       b, 0).entries]_vars

-----------------------------------------------------------------------------
(* A guest that writes one file of more than one extent to an empty disk:  *)
(* the sectors of extent 0 into blocks 16..23, the directory sector, the   *)
(* sectors of extent 1 into block 24, the directory sector again, and then *)
(* ~Disk().                                                                *)

MaxTailSectors == 2

BlocksPerExtent == 8
ExtentSectors == BlocksPerExtent * SectorsPerBlock

\* where sector k (from 0) of the file goes, and what it holds
FileSectorLoc(k) ==
    find_location_within_block(InitialNextBlock + (k \div SectorsPerBlock),
                               k % SectorsPerBlock)
FileSectorData(k) == Fill((k % 250) + 1)

\* data sectors the guest has written so far
DataCount == Cardinality({loc \in DOMAIN written : loc[1] >= 2})

ExtentSlot(ex, rc) ==
    MkSlot(0, NameA, ex, rc,
           IF ex = 0 THEN [i \in 1..BlocksPerExtent |-> InitialNextBlock + i - 1]
           ELSE <<InitialNextBlock + BlocksPerExtent>>)

ExtInit == DiskInit /\ m_entries = <<>>

\* Disk::write of the next data sector of the file
GuestWriteData ==
    /\ diskPhase = "live"
    /\ DataCount < ExtentSectors + MaxTailSectors
    /\ DataCount = ExtentSectors => Len(m_entries) = 1
    /\ Len(m_entries) < 2
    /\ LET loc == FileSectorLoc(DataCount)
           buffer == FileSectorData(DataCount)
           r == DiskWrite(m_entries, m_next_block, m_sector_cache, buffer, loc[1], loc[2])
       IN /\ m_entries' = r.entries
          /\ m_next_block' = r.next
          /\ m_sector_cache' = r.cache
          /\ written' = (loc :> buffer) @@ written
    /\ diskOps' = diskOps + 1
    /\ UNCHANGED <<hostfs, diskPhase, dirHist, readLoc, readBuf>>
    /\ UNCHANGED sysVars

\* Disk::write of the directory sector: the slot of extent 0 once it is
\* full, both slots once extent 1 has data
GuestWriteDirectory ==
    /\ diskPhase = "live"
    /\ \/ DataCount = ExtentSectors /\ m_entries = <<>>
       \/ DataCount > ExtentSectors /\ Len(m_entries) = 1
    /\ LET buffer == IF DataCount = ExtentSectors
                     THEN DirSector(ExtentSlot(0, ExtentSectors), EmptySlot)
                     ELSE DirSector(ExtentSlot(0, ExtentSectors),
                                    ExtentSlot(1, DataCount - ExtentSectors))
           r == DiskWrite(m_entries, m_next_block, m_sector_cache, buffer, 0, 0)
       IN /\ m_entries' = r.entries
          /\ m_next_block' = r.next
          /\ m_sector_cache' = r.cache
          /\ written' = (<<0, 0>> :> buffer) @@ written
          /\ dirHist' = GuestSlots(dirHist, buffer, 0)
    /\ diskOps' = diskOps + 1
    /\ UNCHANGED <<hostfs, diskPhase, readLoc, readBuf>>
    /\ UNCHANGED sysVars

ExtNext ==
    \/ GuestWriteData
    \/ GuestWriteDirectory
    \/ DiskFlushOp

SpecExt == ExtInit /\ [][ExtNext]_vars

\* the guest has written the file with both of its extents and the disk has
\* been flushed
TwoExtentsFlushed ==
    /\ diskPhase = "flushed"
    /\ Len(m_entries) = 2
    /\ m_entries[1].m_extent = 0 /\ m_entries[2].m_extent = 1
    /\ DataCount = ExtentSectors + m_entries[2].m_sectors

\* C30: after the guest has written a file of two or more extents, the flush
\* leaves a host file with the sectors of all the extents in extent order,
\* the data of extent k from byte offset k * 16384 on.
C30_AllExtentsInHostFile ==
    TwoExtentsFlushed =>
        /\ RawA \in DOMAIN hostfs
        /\ hostfs[RawA] = [k \in 1..DataCount |-> written[FileSectorLoc(k - 1)]]

-----------------------------------------------------------------------------
(* The write-back specification: Disk() over what the host directory       *)
(* lists, then reads of directory sectors, writes of a sector just read    *)
(* back to where it was read, and the directory writes of a guest.  No     *)
(* action of this specification reads or writes a host file, so the        *)
(* listing (names and sizes, kept in hist.files) stands for the directory. *)

RawUpperA == <<65, 46, 116, 120, 116>>     \* "A.txt"

\* a file of 33 extents: its last entry has extent number 32
ExtentBytes == SectorSize * SectorSize
ManyExtents == 32 * ExtentBytes + 1

RoundListings ==
    { <<>>,
      << [name |-> RawA, size |-> 128], [name |-> RawB, size |-> 200] >>,
      << [name |-> RawA, size |-> 128], [name |-> RawUpperA, size |-> 200] >>,
      << [name |-> RawB, size |-> 3 * ExtentBytes + 1] >>,
      << [name |-> RawB, size |-> ManyExtents] >> }

\* the directory sectors with list positions 0..3, 4..7, 32..35 and 512..515
RoundLocs == { <<0, 0>>, <<0, 1>>, <<0, 8>>, <<1, 0>> }

RoundInit ==
    /\ \E files \in RoundListings :
          LET st == build_directory(files, [entries |-> <<>>, next |-> InitialNextBlock])
          IN /\ m_entries = st.entries
             /\ m_next_block = st.next
             /\ dirHist = GuestInit(st.entries)
             /\ hist = [kind |-> "scan", files |-> files]
    /\ hostfs = <<>>
    /\ m_sector_cache = <<>>
    /\ diskPhase = "live"
    /\ readLoc = NoLoc
    /\ readBuf = <<>>
    /\ written = <<>>
    /\ diskOps = 0
    /\ mem = <<>>
    /\ cpu = ResetCpu
    /\ pc = 0
    /\ m_effective_pc = 0
    /\ m_finished = FALSE
    /\ m_check_memory_accesses = FALSE
    /\ m_enable_memory_checks = TRUE
    /\ bios = NoBios
    /\ m_fbase = 0
    /\ phase = "none"
    /\ fault = "none"
    /\ term = <<>>
    /\ m_output_handler = "none"
    /\ runs = 0
    /\ steps = 0
    /\ passes = 0
    /\ m_debug_actions = <<>>
    /\ elapsed_cycles = 0
    /\ max_cycles = 0
    /\ m_symbols = <<>>

\* Disk::write of the 128 bytes the preceding Disk::read of that sector gave
WriteBack ==
    /\ readLoc \in RoundLocs
    /\ DiskWriteOp(readLoc, readBuf)

RoundNext ==
    \/ \E loc \in RoundLocs : DiskReadOp(loc)
    \/ WriteBack
    \/ \E b \in DirBuffers : DiskWriteOp(<<0, 0>>, b)

SpecRound == RoundInit /\ [][RoundNext]_vars

\* the directory is as the constructor built it
AsConstructed ==
    m_entries = build_directory(hist.files,
                                [entries |-> <<>>, next |-> InitialNextBlock]).entries

\* C31: for every directory the constructor can build, writing a directory
\* sector back with exactly the 128 bytes that reading it produced leaves
\* the directory as it was: the same entries with the same names, blocks,
\* existence and modified flags, and no block taken from the counter.
C31_WriteBackChangesNothing ==
    [][(WriteBack /\ AsConstructed)
          => (m_entries' = m_entries /\ m_next_block' = m_next_block)]_vars

-----------------------------------------------------------------------------
(* A guest that writes the sectors of one new file A.TXT into blocks 16    *)
(* and up, one after the other, then the directory sector with the file's  *)
(* slot, and then ~Disk().  The record count of the slot is what a BDOS    *)
(* writes for a file that ends at that record; the cache may hold sectors  *)
(* of the file's last block beyond it.                                     *)

MaxFillSectors == 20

RecordCounts == {1, 2, 16, 17, 18, 19}

\* the slot of a file of rc records, with the blocks that hold them
FillSlot(rc) ==
    MkSlot(0, NameA, 0, rc,
           [i \in 1..((rc + SectorsPerBlock - 1) \div SectorsPerBlock) |->
               InitialNextBlock + i - 1])

\* Disk::write of the next data sector
GuestFill ==
    /\ diskPhase = "live"
    /\ m_entries = <<>>
    /\ DataCount < MaxFillSectors
    /\ LET loc == FileSectorLoc(DataCount)
           buffer == FileSectorData(DataCount)
           r == DiskWrite(m_entries, m_next_block, m_sector_cache, buffer, loc[1], loc[2])
       IN /\ m_entries' = r.entries
          /\ m_next_block' = r.next
          /\ m_sector_cache' = r.cache
          /\ written' = (loc :> buffer) @@ written
    /\ diskOps' = diskOps + 1
    /\ UNCHANGED <<hostfs, diskPhase, dirHist, readLoc, readBuf>>
    /\ UNCHANGED sysVars

\* Disk::write of the directory sector with the slot of the file
GuestClose(rc) ==
    /\ diskPhase = "live"
    /\ m_entries = <<>>
    /\ rc <= DataCount
    /\ LET buffer == DirSector(FillSlot(rc), EmptySlot)
           r == DiskWrite(m_entries, m_next_block, m_sector_cache, buffer, 0, 0)
       IN /\ m_entries' = r.entries
          /\ m_next_block' = r.next
          /\ m_sector_cache' = r.cache
          /\ written' = (<<0, 0>> :> buffer) @@ written
          /\ dirHist' = GuestSlots(dirHist, buffer, 0)
    /\ diskOps' = diskOps + 1
    /\ UNCHANGED <<hostfs, diskPhase, readLoc, readBuf>>
    /\ UNCHANGED sysVars

\* ~Disk(); hist keeps the host files as the first pass of the flush,
\* flush_file_changes_to_host_filesystem, left them
FillFlush ==
    /\ diskPhase = "live"
    /\ LET a == flush_file_changes_to_host_filesystem(hostfs, m_sector_cache, m_entries)
           r == flush_to_host_filesystem(hostfs, m_sector_cache, m_entries, NoShortWrites)
       IN /\ hostfs' = r.fs
          /\ m_sector_cache' = r.cache
          /\ hist' = [kind |-> "flush", changed |-> a.fs, cache0 |-> m_sector_cache]
    /\ diskPhase' = "flushed"
    /\ readLoc' = NoLoc
    /\ readBuf' = <<>>
    /\ UNCHANGED <<m_entries, m_next_block, written, dirHist, diskOps>>
    /\ UNCHANGED <<mem, cpu, pc, m_effective_pc, m_finished, m_check_memory_accesses,
                   m_enable_memory_checks, bios, m_fbase, phase, fault, term,
                   m_output_handler, runs, steps, passes, m_debug_actions,
                   elapsed_cycles, max_cycles, m_symbols>>

FillNext ==
    \/ GuestFill
    \/ \E rc \in RecordCounts : GuestClose(rc)
    \/ FillFlush

SpecFill == ExtInit /\ [][FillNext]_vars

\* the sectors of entry e in block-list order, up to its record count
RecordLocs(e) ==
    [k \in 1..Min(e.m_sectors, Len(e.m_blocks) * SectorsPerBlock) |->
        find_location_within_block(e.m_blocks[((k - 1) \div SectorsPerBlock) + 1],
                                   (k - 1) % SectorsPerBlock)]

\* of those, the ones the cache held when the flush began, as the flush
\* should write them
RecordData(e, cache) ==
    LET IsCached(loc) == loc \in DOMAIN cache
        locs == SelectSeq(RecordLocs(e), IsCached)
    IN [k \in 1..Len(locs) |-> cache[locs[k]].m_data]

\* C32: at flush, the sectors written to the host file of a modified live
\* entry are the cached sectors of its blocks in block-list order up to the
\* entry's record count, so at most record-count sectors are written, and
\* each of them is left clean in the cache.
C32_FlushStopsAtRecordCount ==
    (diskPhase = "flushed" /\ hist.kind = "flush") =>
        \A i \in 1..Len(m_entries) :
            LET e == m_entries[i] IN
            (e.m_modified /\ e.m_exists) =>
                /\ e.m_raw_name \in DOMAIN hist.changed
                /\ Len(hist.changed[e.m_raw_name]) <= e.m_sectors
                /\ hist.changed[e.m_raw_name] = RecordData(e, hist.cache0)
                /\ \A k \in 1..Len(RecordLocs(e)) :
                      RecordLocs(e)[k] \in DOMAIN m_sector_cache
                          => ~m_sector_cache[RecordLocs(e)[k]].m_dirty

-----------------------------------------------------------------------------
\* C33: for every live directory entry, at every point of a session, each
\* block b of its block list is at or above the entry's first block and
\* b - first_block is the position of the block within the whole file:
\* eight blocks for each earlier extent and the blocks before it in the list.
C33_BlocksCountFromFirstBlock ==
    diskPhase = "live" =>
        \A i \in 1..Len(m_entries) :
            m_entries[i].m_exists =>
                \A j \in 1..Len(m_entries[i].m_blocks) :
                    LET b == m_entries[i].m_blocks[j] IN
                    /\ b >= m_entries[i].m_first_block
                    /\ b - m_entries[i].m_first_block
                          = m_entries[i].m_extent * BlocksPerExtent + (j - 1)

-----------------------------------------------------------------------------
\* the directory as the constructor built it over the listing
BuiltEntries ==
    build_directory(hist.files, [entries |-> <<>>, next |-> InitialNextBlock]).entries

\* every directory sector the guest has written so far holds what the
\* directory rendered at construction: the guest has changed no slot
OnlyWrittenBack ==
    \A loc \in DOMAIN written :
        written[loc] = create_directory_entries(BuiltEntries, loc[1], loc[2])

\* entries i and j have no block in common
DisjointBlocks(i, j) ==
    \A x \in 1..Len(m_entries[i].m_blocks) : \A y \in 1..Len(m_entries[j].m_blocks) :
        m_entries[i].m_blocks[x] # m_entries[j].m_blocks[y]

\* C34: in every reachable state of the disk each block index appears in the
\* block list of at most one live entry (stated here for the sessions in
\* which the guest has only written directory sectors back as it read them,
\* as a BDOS does with the slots it leaves alone).
C34_BlocksHaveOneOwner ==
    (diskPhase = "live" /\ OnlyWrittenBack) =>
        \A i \in 1..Len(m_entries) : \A j \in 1..Len(m_entries) :
            (i < j /\ m_entries[i].m_exists /\ m_entries[j].m_exists)
                => DisjointBlocks(i, j)

-----------------------------------------------------------------------------
\* the blocks that build_directory took from the counter: one for each
\* block of each entry
BlocksTaken ==
    Cardinality({ij \in (1..Len(m_entries)) \X (1..BlocksPerExtent) :
                    ij[2] <= Len(m_entries[ij[1]].m_blocks)})

\* C35: after construction over any host directory every allocated block
\* index is at most DSM, there are at most DRM + 1 directory entries, and the
\* 16-bit block counter has not wrapped around.
C35_DirectoryWithinDpbLimits ==
    diskPhase = "live" =>
        /\ \A i \in 1..Len(m_entries) : \A j \in 1..Len(m_entries[i].m_blocks) :
              m_entries[i].m_blocks[j] <= DSM
        /\ Len(m_entries) <= DRM + 1
        /\ m_next_block = InitialNextBlock + BlocksTaken

-----------------------------------------------------------------------------
\* slot k (0..3) of a directory sector
SlotAt(buffer, k) == SubSeq(buffer, k * EntrySize + 1, (k + 1) * EntrySize)

\* a 32-byte slot shows entry e: the user byte or 0xE5, the 11 characters of
\* the name, the extent in bytes 12 and 14, the record count and the blocks
\* as little-endian words, zero after the last
RendersEntry(slot, e) ==
    /\ slot[1] = (IF e.m_exists THEN 0 ELSE Inactive)
    /\ SubSeq(slot, 2, 12) = e.m_name
    /\ slot[13] = e.m_extent % 32
    /\ slot[14] = 0
    /\ slot[15] = (e.m_extent \div 32) % 256
    /\ slot[16] = e.m_sectors
    /\ \A j \in 1..BlocksPerExtent :
          slot[15 + 2 * j] + 256 * slot[16 + 2 * j]
              = (IF j <= Len(e.m_blocks) THEN e.m_blocks[j] ELSE 0)

\* the sector at loc shows the list positions (track * 128 + sector) * 4 + k
RendersPositions(buffer, entries, loc) ==
    \A k \in 0..3 :
        LET position == (loc[1] * SectorSize + loc[2]) * 4 + k IN
        IF position >= Len(entries)
        THEN SlotAt(buffer, k) = EmptySlot
        ELSE RendersEntry(SlotAt(buffer, k), entries[position + 1])

\* no step takes an entry out of the list or moves it: every position keeps
\* its entry, which a step may change in place and then marks as modified
KeepsSlots ==
    /\ Len(m_entries') >= Len(m_entries)
    /\ \A i \in 1..Len(m_entries) :
          /\ m_entries'[i].m_extent = m_entries[i].m_extent
          /\ m_entries'[i] = m_entries[i] \/ m_entries'[i].m_modified

\* C36: a read of a directory sector that is not yet in the cache returns
\* four 32-byte slots showing the entries at list positions
\* (track * 128 + sector) * 4 + k, k = 0..3, with 32 bytes of 0xE5 for every
\* position at or beyond the end of the list; and no step removes or moves
\* an entry, so each entry keeps its slot.
C36_DirectoryReadShowsListPositions ==
    [][/\ \A loc \in RoundLocs :
             (DiskReadOp(loc) /\ loc \notin DOMAIN m_sector_cache)
                 => RendersPositions(readBuf', m_entries, loc)
       /\ KeepsSlots]_vars

\* a first read of track 0, sector 8 over the file of 33 extents: slot 0
\* shows the entry at position 32, the other slots are beyond the list
C36_Witness ==
    /\ readLoc = <<0, 8>>
    /\ <<0, 8>> \notin DOMAIN written
    /\ Len(m_entries) = 33
    /\ SubSeq(readBuf, 2, 12) = m_entries[33].m_name
    /\ readBuf[15] = 1
    /\ SlotAt(readBuf, 1) = EmptySlot

-----------------------------------------------------------------------------
\* C37: each time the loop of emulate() arrives at an address A and looks up
\* the debug actions, every action registered at A is evaluated exactly once
\* (every PassPoint at A counts the hit) and no action registered at another
\* address is evaluated.
C37_EveryActionAtAddressEvaluated ==
    (IsStep /\ hist.evaluated) =>
        \A k \in 1..Len(m_debug_actions) :
            m_debug_actions[k].hits =
                hist.actions0[k].hits + (IF m_debug_actions[k].m_address = pc THEN 1 ELSE 0)

-----------------------------------------------------------------------------
\* the Breakpoints that answered false in the pass just made
BrokeAt ==
    {k \in 1..Len(m_debug_actions) :
        /\ m_debug_actions[k].type = "BREAKPOINT"
        /\ m_debug_actions[k].hits = hist.actions0[k].hits + 1}

\* the pass just made was the first of its call of emulate() or
\* emulate_instruction()
EntryPass == passes = 1 \/ ~hist.unbounded

\* the Breakpoints at the address of the pass that have stopped a call there
StoppedHereBefore ==
    {k \in 1..Len(hist.actions0) :
        /\ hist.actions0[k].type = "BREAKPOINT"
        /\ hist.actions0[k].m_address = hist.at
        /\ hist.actions0[k].hits >= 1}

\* C38: when a Breakpoint at A stops emulate(), the call has returned with
\* PC = A and the machine is as the instruction before A left it, the
\* instruction at A not executed; and a call of run() or step() entered at A
\* afterwards executes the instruction at A instead of stopping there again.
C38_BreakpointStopsAtAddressAndResumes ==
    /\ (IsStep /\ hist.broke /\ BrokeAt # {}) =>
           \A k \in BrokeAt :
               /\ pc = m_debug_actions[k].m_address
               /\ cpu.m_pc = pc /\ m_effective_pc = pc
               /\ m_finished /\ hist.returned /\ phase = "stopped"
               /\ hist.free.on /\ hist.free.pc = pc
               /\ mem = hist.free.mem
               /\ [cpu EXCEPT !.m_pc = 0, !.m_r = 0]
                     = [hist.free.r EXCEPT !.m_pc = 0, !.m_r = 0]
    /\ (IsStep /\ EntryPass /\ StoppedHereBefore # {}) =>
           /\ hist.executed
           /\ ~hist.stopped
           /\ elapsed_cycles > hist.elapsed0

\* run() has been stopped by the Breakpoint at 0x0100 and, called again, has
\* executed the instruction at 0x0100 in its first pass
C38_Witness ==
    /\ IsStep /\ hist.unbounded /\ passes = 1 /\ runs = 2
    /\ hist.at = UserBase
    /\ StoppedHereBefore # {}
    /\ hist.executed
    /\ pc = UserBase + 1


-----------------------------------------------------------------------------
(* BIOS READ and the protected memory                                      *)

\* the addresses a guest write is refused at while the checks are on: the
\* warm start and BDOS vectors of page zero, the BIOS jump table and stubs
ProtectedAddresses(b) ==
    {a \in 0..7 : is_fatal_write(a)} \cup (b.m_discovered_base..b.m_stubs_top)

\* the memory checks are on
ChecksEnabled == m_enable_memory_checks /\ m_check_memory_accesses

\* C39: while the memory checks are enabled, a BIOS READ leaves the
\* protected page-zero vectors (0x0000-0x0002, 0x0005-0x0007) and the
\* rewritten BIOS jump table and stubs as they were, whatever DMA address
\* SETDMA has set.
C39_ReadKeepsProtectedMemory ==
    (ServicedFn = 13 /\ fault = "none" /\ ChecksEnabled /\ bios.present) =>
        \A a \in ProtectedAddresses(hist.bios0) :
            MemRead(mem, a) = MemRead(hist.mem0, a)

-----------------------------------------------------------------------------
(* The dirty-sector specification: Disk() over a host directory, writes of *)
(* data sectors of the files, host files that go away meanwhile, and       *)
(* ~Disk() on a host that may write a file's sectors short                 *)

DirtyLocs == { <<2, 0>>, <<2, 1>>, <<2, 16>>, <<2, 17>> }

\* what fwrite does at the flush: every sector in full, or a.txt or b.txt
\* with 64 bytes or nothing of each sector
ShortChoices ==
    { NoShortWrites, (RawA :> 64), (RawA :> 0), (RawB :> 64) }

\* the host removes a file the disk was built over
HostRemoves(n) ==
    /\ diskPhase = "live"
    /\ n \in DOMAIN hostfs
    /\ hostfs' = [x \in DOMAIN hostfs \ {n} |-> hostfs[x]]
    /\ UNCHANGED <<m_entries, m_next_block, m_sector_cache, diskPhase, readLoc, readBuf,
                   written, dirHist, diskOps>>
    /\ UNCHANGED sysVars

\* ~Disk(); hist keeps what the flush started from
DirtyFlush(short) ==
    /\ diskPhase = "live"
    /\ LET r == flush_to_host_filesystem(hostfs, m_sector_cache, m_entries, short)
       IN /\ hostfs' = r.fs
          /\ m_sector_cache' = r.cache
    /\ hist' = [kind |-> "dirtyflush", short |-> short, fs0 |-> hostfs,
                cache0 |-> m_sector_cache]
    /\ diskPhase' = "flushed"
    /\ readLoc' = NoLoc
    /\ readBuf' = <<>>
    /\ UNCHANGED <<m_entries, m_next_block, written, dirHist, diskOps>>
    /\ UNCHANGED <<mem, cpu, pc, m_effective_pc, m_finished, m_check_memory_accesses,
                   m_enable_memory_checks, bios, m_fbase, phase, fault, term,
                   m_output_handler, runs, steps, passes, m_debug_actions,
                   elapsed_cycles, max_cycles, m_symbols>>

DirtyNext ==
    \/ \E loc \in DirtyLocs : \E b \in DataBuffers : DiskWriteOp(loc, b)
    \/ \E n \in {RawA, RawB} : HostRemoves(n)
    \/ \E short \in ShortChoices : DirtyFlush(short)

SpecDirty == DiskInit /\ [][DirtyNext]_vars

\* the flush has run
DirtyFlushed == diskPhase = "flushed" /\ hist.kind = "dirtyflush"

\* the live entries that own the block of the sector at key
Owners(key) ==
    {k \in 1..Len(m_entries) :
        /\ m_entries[k].m_exists
        /\ \E i \in 1..Len(m_entries[k].m_blocks) :
              m_entries[k].m_blocks[i] = track_sector_to_block_and_offset(key[1], key[2])[1]}

\* the sector index within the file of entry f that the sector at key lands on
FileChunk(f, key) ==
    LET bo == track_sector_to_block_and_offset(key[1], key[2]) IN
    (bo[1] - f.m_first_block) * SectorsPerBlock + bo[2]

\* the dirty data sectors the flush started with
DirtyData == {key \in DOMAIN hist.cache0 : hist.cache0[key].m_dirty /\ key[1] > 1}

====
